---- MODULE Spec2Model ----
(***************************************************************************)
(* Space Dogs (app/space-dogs/engine): the render loop of Game.tsx with    *)
(* the hooks it drives (useWeapons, useEnemies, useEffects), as a state    *)
(* machine.                                                                *)
(*                                                                         *)
(* Units.  Time is in integer milliseconds: `now` is performance.now(),    *)
(* dt is engine.getDeltaTime() (the code divides it by 1000 and keeps the  *)
(* laser's ttl in seconds; the model keeps ttl, durations and finalTime in *)
(* milliseconds, so "x / 1000 >= s" reads "x >= 1000 s").  Lengths are in  *)
(* integer decimetres, vectors are triples <<x, y, z>>.                    *)
(*                                                                         *)
(* React.  `st` holds the values of the component's useState cells (what   *)
(* the next render will read), `cl` the values captured by the closures of *)
(* the last committed render: the render loop registered by the effect of  *)
(* Game.tsx:249-419 reads enemiesLoaded, isVictory, droneCount and         *)
(* destroyedEnemyCount from `cl`.  A state update made inside a tick or a  *)
(* promise continuation is rendered later (action Render); ticks may run   *)
(* in between.  The updates of a click handler are rendered, and their     *)
(* effects run, before the handler's event ends (React 18), so ResetGame   *)
(* includes that render.                                                   *)
(***************************************************************************)
EXTENDS Integers, Sequences, FiniteSets, TLC

(* ------------------------------ bounds -------------------------------- *)
\* wall-clock horizon of a behaviour, in ms
MaxNow == 600
\* largest enemies.count of a level configuration
MaxCount == 3
\* largest total hit points (count * health) of a level configuration
MaxHitPoints == 3
\* number of "Play Again" clicks in a behaviour
MaxResets == 1

\* the value `null` of a number-or-null cell (every number of the model is >= 0)
Null == -1

\* frame lengths engine.getDeltaTime() may report, in ms
Steps == {60, 120}

(* ------------------------- level configuration ------------------------ *)
\* weapons.laserLifetime of the level configurations, in ms
LaserLifetimes == {60, 180}

\* the victory conditions of VictoryCondition
VictoryConditions ==
    {[type |-> "destroy-all", count |-> 0, duration |-> 0]}
    \cup {[type |-> "destroy-count", count |-> 2, duration |-> 0]}
    \cup {[type |-> "survive-time", count |-> 0, duration |-> 180]}

\* level configurations: the fields of LevelConfig the loop reads
Configs ==
    {c \in [victory : VictoryConditions, count : 1..MaxCount, health : 1..MaxHitPoints,
             laserLifetime : LaserLifetimes] :
        /\ c.count * c.health <= MaxHitPoints
        /\ c.laserLifetime = 60 =>
              c.victory.type = "destroy-all" /\ c.count = 1 /\ c.health = 1
        /\ c.victory.type = "destroy-count" => c.victory.count <= c.count /\ c.health = 1
        /\ c.victory.type = "survive-time" => c.count = 1 /\ c.health = 1}

\* player.startPosition and the forward axis of the player's mesh
PlayerPosition == <<0, 0, -222>>
Forward == <<0, 0, 1>>
\* muzzleOffset (0, 0, 1.2) of the render loop, in dm
MuzzleOffset == <<0, 0, 12>>

\* local collision ellipsoid of a drone (centre and radii from its bounds)
CollisionCenter == <<0, 0, 0>>
CollisionRadii == <<10, 5, 10>>

(* ------------------------------ vectors ------------------------------- *)
VAdd(a, b) == <<a[1] + b[1], a[2] + b[2], a[3] + b[3]>>
VSub(a, b) == <<a[1] - b[1], a[2] - b[2], a[3] - b[3]>>
VScale(a, k) == <<a[1] * k, a[2] * k, a[3] * k>>

RemoveAt(s, i) == SubSeq(s, 1, i - 1) \o SubSeq(s, i + 1, Len(s))

(* ------------------------------- state -------------------------------- *)
VARIABLES
    config,             \* the LevelConfig prop (immutable)
    now,                \* performance.now() at the last tick
    loadState,          \* the first loadEnemies call: "loading", "loaded", "failed"
    drones,             \* dronesRef.current
    lasers,             \* lasersRef.current
    lastShotTime,       \* lastShotTimeRef.current
    fireRequested,      \* fireRequestedRef.current
    fire,               \* controlState.fire
    explosions,         \* explosionsRef.current (ttl of each)
    sparks,             \* sparksRef.current (ttl of each)
    timerStart,         \* timerStartRef.current
    timerStop,          \* timerStopRef.current
    initialEnemyCount,  \* initialEnemyCountRef.current
    st,                 \* useState cells of Game and useEnemies
    cl,                 \* their values in the closures of the last render
    storedBest,         \* localStorage["best-time-<id>"]
    hist,               \* observations of the run (events, reads, order of steps)
    probe,              \* a drone built from a mesh set and a point tested against it
    ship,               \* the player of usePlayer: position, velocities, heading
    fleet,              \* the drones of useEnemies: movement and tractor beams
    fx                  \* the particles of a useEffects hook that was given a glow

\* the variables of the game loop, and those of the functions studied alone
game == <<config, now, loadState, drones, lasers, lastShotTime, fireRequested, fire,
          explosions, sparks, timerStart, timerStop, initialEnemyCount, st, cl,
          storedBest, hist>>
pure == <<probe, ship, fleet, fx>>
vars == <<game, pure>>


\* config.weapons; laserSpeed in dm per ms, the times in ms
Weapons == [laserSpeed |-> 3, laserLifetime |-> config.laserLifetime, fireRate |-> 120]

(* --------------------------- effects hook ----------------------------- *)
\* EXPLOSION_DURATION and SPARK_DURATION, in ms
EXPLOSION_DURATION == 600
SPARK_DURATION == 400
SPARK_COUNT_ON_HIT == 6
SPARK_COUNT_ON_DESTROY == 12

\* the `glow` argument useEffects receives: Game calls useEffects(scene), so
\* the second parameter is undefined
Glow == Null

\* Truthiness of a number-or-null reference (null and 0 are falsy).
Truthy(x) == x # Null /\ x # 0

(* ----------------------------- the world ------------------------------ *)
\* The mutable state a tick works on, as one record.
World ==
    [drones |-> drones, lasers |-> lasers, lastShotTime |-> lastShotTime,
     fireRequested |-> fireRequested, explosions |-> explosions, sparks |-> sparks,
     timerStart |-> timerStart, timerStop |-> timerStop,
     initialEnemyCount |-> initialEnemyCount, st |-> st, storedBest |-> storedBest,
     hist |-> hist]

\* The observations a step leaves: the name of the step, in execution order.
Note(w, step) == [w EXCEPT !.hist.steps = Append(@, step)]

(* ----------------------------- useEffects ----------------------------- *)
spawnExplosion(w) ==
    IF Glow = Null THEN w
    ELSE [w EXCEPT !.explosions = Append(@, EXPLOSION_DURATION),
                   !.hist.explosionsSpawned = @ + 1]

spawnSparks(w, count) ==
    IF Glow = Null THEN w
    ELSE [w EXCEPT !.sparks = @ \o [i \in 1..count |-> SPARK_DURATION],
                   !.hist.sparksSpawned = @ + count]

\* ttl -= dt for every particle; a particle whose ttl is <= 0 is spliced out
Decay(ttls, dt) ==
    SelectSeq([i \in 1..Len(ttls) |-> ttls[i] - dt], LAMBDA t : t > 0)

updateEffects(w, dt) ==
    Note([w EXCEPT !.explosions = Decay(@, dt), !.sparks = Decay(@, dt)], "effects")

(* ----------------------------- useEnemies ----------------------------- *)
\* One pass of loadEnemies once the asset container is there: enemies.count
\* drones are pushed on dronesRef.current, then setDroneCount(length).
\* A drone's node is a fresh TransformNode: its position is the origin.
NewDrone(id) == [id |-> id, health |-> config.health, position |-> <<0, 0, 0>>]

loadEnemies(w) ==
    LET base == Len(w.hist.hits)
        fresh == [i \in 1..config.count |-> NewDrone(base + i)]
        zeros == [i \in 1..config.count |-> 0]
        all == w.drones \o fresh
    IN [w EXCEPT !.drones = all,
                 !.st.droneCount = Len(all),
                 !.hist.hits = @ \o zeros,
                 !.hist.destroyedEvents = @ \o zeros,
                 !.hist.removals = @ \o zeros,
                 !.hist.loadedThisRun = @ + config.count]

\* (removeDrone splicing the neighbour below the index it is given)
removeDroneBelow(w, index) ==
    IF index \notin 1..Len(w.drones) THEN w
    ELSE LET at == IF index > 1 THEN index - 1 ELSE index
             rest == RemoveAt(w.drones, at)
         IN [w EXCEPT !.drones = rest,
                      !.st.droneCount = Len(rest),
                      !.hist.removals[w.drones[at].id] = @ + 1]

removeDrone(w, index) ==
    IF index \notin 1..Len(w.drones) THEN w
    ELSE LET rest == RemoveAt(w.drones, index)
         IN [w EXCEPT !.drones = rest,
                      !.st.droneCount = Len(rest),
                      !.hist.removals[w.drones[index].id] = @ + 1]

\* movement.type = "stationary", no facePoint, no tractor beam: a drone's
\* node is left where it is
updateEnemies(w, dt) == Note(w, "enemies")

\* `dronesRef.current = []` puts a new array into the registry: dronesRef
\* numbers the arrays, and a render hands the current one to Game as `drones`
resetEnemies(w) ==
    loadEnemies([w EXCEPT !.drones = <<>>, !.st.droneCount = 0,
                          !.st.dronesRef = @ + 1])

(* ----------------------------- useWeapons ----------------------------- *)
\* A laser is named by the time of its spawn (a tick spawns at most one).
\* the last two entries of a log
LastTwo(log) == IF Len(log) <= 2 THEN log ELSE SubSeq(log, Len(log) - 1, Len(log))

\* (fireLaser leaving lastShotTimeRef as it was)
fireLaserNoStamp(w, t) ==
    LET muzzle == VAdd(PlayerPosition, MuzzleOffset)
        position == VAdd(muzzle, VScale(Forward, 30))
    IN [w EXCEPT !.lasers = Append(@, [id |-> t,
                                        ttl |-> Weapons.laserLifetime,
                                        position |-> position,
                                        direction |-> Forward]),
                 !.hist.shots = LastTwo(Append(@, t)),
                 !.hist.tickShots = @ + 1]

\* lastShotTimeRef.current = performance.now(): the clock read of the same
\* frame, taken as the frame's `now`
fireLaser(w, t) ==
    LET muzzle == VAdd(PlayerPosition, MuzzleOffset)
        position == VAdd(muzzle, VScale(Forward, 30))
    IN [w EXCEPT !.lasers = Append(@, [id |-> t,
                                        ttl |-> Weapons.laserLifetime,
                                        position |-> position,
                                        direction |-> Forward]),
                 !.lastShotTime = t,
                 !.hist.shots = LastTwo(Append(@, t)),
                 !.hist.tickShots = @ + 1]

\* (the fallback radius taken as 2)
OrTwo(r) == IF r = 0 THEN 2 ELSE r

\* radii.x || 1
OrOne(r) == IF r = 0 THEN 1 ELSE r

\* (the test leaving the z axis out)
InsideNoZ(offset, radii) ==
    LET rx == OrOne(radii[1]) * OrOne(radii[1])
        ry == OrOne(radii[2]) * OrOne(radii[2])
    IN offset[1] * offset[1] * ry + offset[2] * offset[2] * rx <= rx * ry

\* nx*nx + ny*ny + nz*nz <= 1 with n = offset / (radii || 1), in integers
Inside(offset, radii) ==
    LET rx == OrOne(radii[1]) * OrOne(radii[1])
        ry == OrOne(radii[2]) * OrOne(radii[2])
        rz == OrOne(radii[3]) * OrOne(radii[3])
    IN offset[1] * offset[1] * ry * rz
       + offset[2] * offset[2] * rx * rz
       + offset[3] * offset[3] * rx * ry <= rx * ry * rz

\* the laser position in the drone's local space (identity rotation, scale 1)
DroneHit(drone, position) ==
    Inside(VSub(VSub(position, drone.position), CollisionCenter), CollisionRadii)

\* the first drone the loop `for (d = length - 1; d >= 0; d -= 1)` finds hit
\* (0 when there is none)
RECURSIVE FirstHit(_, _, _)
FirstHit(ds, position, d) ==
    IF d = 0 THEN 0
    ELSE IF DroneHit(ds[d], position) THEN d
    ELSE FirstHit(ds, position, d - 1)

\* Game.handleDroneDestroyed
handleDroneDestroyed(w, d) ==
    LET w1 == removeDrone(spawnExplosion(w), d)
    IN [w1 EXCEPT !.st.destroyedEnemyCount = @ + 1]

\* Game.handleDroneHit
handleDroneHit(w, d) == w

\* `drone.health -= 1`
DamageStrong(health) == health - 2
Damage(health) == health - 1

\* `if (drone.health <= 0)`: the hit destroys the drone
IsDestroyedStrict(health) == health < 0
IsDestroyed(health) == health <= 0

\* a call of onDroneDestroyed ("destroyed") or onDroneHit ("hit") by laser i
\* for the drone `id`, whose health is `health` by then
Emit(w, i, id, kind, health) ==
    [w EXCEPT !.hist.events = Append(@, [laser |-> i, drone |-> id, kind |-> kind,
                                         health |-> health])]

\* (a destroying hit calling onDroneHit as well)
OnHitBoth(w, i, d) ==
    LET id == w.drones[d].id
        laser == w.lasers[i].id
        health == Damage(w.drones[d].health)
        w1 == [w EXCEPT !.drones[d].health = health,
                        !.hist.hits[id] = @ + 1,
                        !.hist.tickDied =
                            IF health <= 0 /\ w.drones[d].health > 0
                            THEN @ \cup {id} ELSE @]
        w2 == spawnSparks([w1 EXCEPT !.hist.laserHits =
                                         Append(@, [id |-> laser, drone |-> id])],
                          SPARK_COUNT_ON_HIT)
        w3 == [w2 EXCEPT !.lasers = RemoveAt(@, i),
                         !.hist.laserEnds = Append(@, [id |-> laser,
                                                       cause |-> "hit",
                                                       inside |-> TRUE])]
    IN IF IsDestroyed(health)
       THEN handleDroneDestroyed(
                [Emit(Emit(spawnSparks(w3, SPARK_COUNT_ON_DESTROY),
                           laser, id, "hit", health), laser, id, "destroyed", health)
                    EXCEPT !.hist.destroyedEvents[id] = @ + 1,
                           !.hist.tickDestroyed = @ \cup {id},
                           !.hist.destroyedThisRun = @ + 1], d)
       ELSE handleDroneHit(Emit(w3, laser, id, "hit", health), d)

\* the body of `if (inside)`: laser i hit the drone at index d
OnHit(w, i, d) ==
    LET id == w.drones[d].id
        laser == w.lasers[i].id
        health == Damage(w.drones[d].health)
        w1 == [w EXCEPT !.drones[d].health = health,
                        !.hist.hits[id] = @ + 1,
                        !.hist.tickDied =
                            IF health <= 0 /\ w.drones[d].health > 0
                            THEN @ \cup {id} ELSE @]
        w2 == spawnSparks([w1 EXCEPT !.hist.laserHits =
                                         Append(@, [id |-> laser, drone |-> id])],
                          SPARK_COUNT_ON_HIT)
        w3 == [w2 EXCEPT !.lasers = RemoveAt(@, i),
                         !.hist.laserEnds = Append(@, [id |-> laser,
                                                       cause |-> "hit",
                                                       inside |-> TRUE])]
    IN IF IsDestroyed(health)
       THEN handleDroneDestroyed(
                [Emit(spawnSparks(w3, SPARK_COUNT_ON_DESTROY),
                      laser, id, "destroyed", health)
                    EXCEPT !.hist.destroyedEvents[id] = @ + 1,
                           !.hist.tickDestroyed = @ \cup {id},
                           !.hist.destroyedThisRun = @ + 1], d)
       ELSE handleDroneHit(Emit(w3, laser, id, "hit", health), d)

\* "Move laser": the laser after laser.mesh.position.addInPlace and ttl -= dt
MoveLaser(laser, dt) ==
    [laser EXCEPT !.position = VAdd(@, VScale(laser.direction, Weapons.laserSpeed * dt)),
                  !.ttl = @ - dt]

\* "Remove expired lasers": laser i is spliced out, its hit test skipped
ExpireLaser(w, i, moved) ==
    [w EXCEPT !.lasers = RemoveAt(@, i),
              !.hist.laserEnds =
                  Append(@, [id |-> moved.id, cause |-> "ttl",
                             inside |-> FirstHit(w.drones, moved.position,
                                                 Len(w.drones)) # 0])]

\* "Check collision with drones" for laser i
TestLaser(w, i, moved) ==
    LET w1 == [w EXCEPT !.lasers[i] = moved,
                        !.hist.tickTested = @ \cup {moved.id}]
        d == FirstHit(w1.drones, moved.position, Len(w1.drones))
    IN IF d = 0 THEN w1 ELSE OnHit(w1, i, d)

\* (one iteration testing for a hit before looking at the ttl)
LaserStepHitFirst(w, i, dt) ==
    LET moved == MoveLaser(w.lasers[i], dt)
        w1 == TestLaser(w, i, moved)
    IN IF moved.ttl <= 0 /\ Len(w1.lasers) = Len(w.lasers)
       THEN ExpireLaser(w1, i, moved)
       ELSE w1

\* one iteration of the laser loop, for laser i
LaserStep(w, i, dt) ==
    LET moved == MoveLaser(w.lasers[i], dt)
    IN IF moved.ttl <= 0 THEN ExpireLaser(w, i, moved) ELSE TestLaser(w, i, moved)

\* the loop `for (i = lasers.length - 1; i >= 0; i -= 1)`, from laser i down
RECURSIVE WeaponsLoop(_, _, _)
WeaponsLoop(w, i, dt) ==
    IF i = 0 THEN w ELSE WeaponsLoop(LaserStep(w, i, dt), i - 1, dt)

updateWeapons(w, dt) == Note(WeaponsLoop(w, Len(w.lasers), dt), "weapons")


(* ------------------------------ Game.tsx ------------------------------ *)
\* the literal of `minTimeSinceTimerStart > 100`, in ms
VictoryGraceMs == 100

\* updatePlayer with no flight control held, zero velocity and no collision
\* body in reach: the player stays at PlayerPosition
updatePlayer(w, dt) == Note(w, "player")

\* (the request dropped by a tick that comes within the cooldown)
handleFiringDropLatch(w, t) ==
    Note(IF (w.fireRequested \/ fire) /\ t - w.lastShotTime > Weapons.fireRate
         THEN [fireLaser(w, t) EXCEPT !.fireRequested = FALSE]
         ELSE [w EXCEPT !.fireRequested = FALSE], "fire")

\* "Handle firing"
handleFiring(w, t) ==
    Note(IF (w.fireRequested \/ fire) /\ t - w.lastShotTime > Weapons.fireRate
         THEN [fireLaser(w, t) EXCEPT !.fireRequested = FALSE]
         ELSE w, "fire")

\* (the latch taking the configured count instead of the loaded one)
trackInitialCountConfigured(w) ==
    IF cl.enemiesLoaded /\ w.initialEnemyCount = Null
    THEN [w EXCEPT !.initialEnemyCount = config.count]
    ELSE w

\* "Track initial enemy count when enemies are first loaded"
trackInitialCount(w) ==
    IF cl.enemiesLoaded /\ w.initialEnemyCount = Null
    THEN LET currentCount == IF cl.droneCount > 0 THEN cl.droneCount ELSE Len(w.drones)
         IN IF currentCount > 0 THEN [w EXCEPT !.initialEnemyCount = currentCount]
            ELSE w
    ELSE w

\* (the guard without its stop-timestamp latch)
VictoryGuardNoStop(w, t) ==
    /\ cl.enemiesLoaded
    /\ w.initialEnemyCount # Null
    /\ w.initialEnemyCount > 0
    /\ ~cl.isVictory
    /\ Truthy(w.timerStart)
    /\ t - w.timerStart > VictoryGraceMs

\* the guard of the victory check
VictoryGuard(w, t) ==
    /\ cl.enemiesLoaded
    /\ w.initialEnemyCount # Null
    /\ w.initialEnemyCount > 0
    /\ w.timerStop = Null
    /\ ~cl.isVictory
    /\ Truthy(w.timerStart)
    /\ t - w.timerStart > VictoryGraceMs

\* (destroy-all decided by the rendered droneCount alone)
VictoryAchievedByCount(w, t) ==
    CASE config.victory.type = "destroy-all" ->
            cl.droneCount = 0 /\ w.initialEnemyCount > 0
      [] config.victory.type = "destroy-count" ->
            cl.destroyedEnemyCount >= config.victory.count
      [] config.victory.type = "survive-time" ->
            t - w.timerStart >= config.victory.duration

\* (survive-time asking for strictly more than the duration)
VictoryAchievedStrict(w, t) ==
    CASE config.victory.type = "destroy-all" ->
            (cl.droneCount = 0 \/ Len(w.drones) = 0) /\ w.initialEnemyCount > 0
      [] config.victory.type = "destroy-count" ->
            cl.destroyedEnemyCount >= config.victory.count
      [] config.victory.type = "survive-time" ->
            t - w.timerStart > config.victory.duration

\* the switch on config.victory.type
VictoryAchieved(w, t) ==
    CASE config.victory.type = "destroy-all" ->
            (cl.droneCount = 0 \/ Len(w.drones) = 0) /\ w.initialEnemyCount > 0
      [] config.victory.type = "destroy-count" ->
            cl.destroyedEnemyCount >= config.victory.count
      [] config.victory.type = "survive-time" ->
            t - w.timerStart >= config.victory.duration

\* (the win storing its time whatever the stored best is)
declareVictoryAlwaysStore(w, t) ==
    LET calculatedFinalTime == t - w.timerStart
    IN [w EXCEPT !.timerStop = t,
                 !.st.finalTime = calculatedFinalTime,
                 !.st.isVictory = TRUE,
                 !.hist.victories = @ + 1,
                 !.hist.won = TRUE,
                 !.hist.storeReads = @ + 1,
                 !.st.isNewBest = TRUE,
                 !.st.bestTime = calculatedFinalTime,
                 !.storedBest = calculatedFinalTime,
                 !.hist.writes = Append(@, [prev |-> w.storedBest,
                                            value |-> calculatedFinalTime])]

\* the body of `if (victoryAchieved)`
declareVictory(w, t) ==
    LET calculatedFinalTime == t - w.timerStart
        currentBest == w.storedBest
        w1 == [w EXCEPT !.timerStop = t,
                        !.st.finalTime = calculatedFinalTime,
                        !.st.isVictory = TRUE,
                        !.hist.victories = @ + 1,
                        !.hist.won = TRUE,
                        !.hist.storeReads = @ + 1]
    IN IF currentBest = Null \/ calculatedFinalTime < currentBest
       THEN [w1 EXCEPT !.st.isNewBest = TRUE,
                       !.st.bestTime = calculatedFinalTime,
                       !.storedBest = calculatedFinalTime,
                       !.hist.writes = Append(@, [prev |-> currentBest,
                                                  value |-> calculatedFinalTime])]
       ELSE w1

\* "Check for victory based on level-specific condition"
checkVictory(w, t) ==
    LET seen == [w EXCEPT !.hist.checked = VictoryGuard(w, t),
                          !.hist.seenIds = {w.drones[i].id : i \in 1..Len(w.drones)},
                          !.hist.seenDestroyed = cl.destroyedEnemyCount]
    IN Note(IF VictoryGuard(w, t) /\ VictoryAchieved(w, t)
            THEN declareVictory(seen, t) ELSE seen, "victory")

\* (the latch written on every tick that sees the enemies loaded)
startTimerEveryTick(w, t) ==
    IF cl.enemiesLoaded
    THEN [w EXCEPT !.timerStart = t, !.hist.starts = @ + 1, !.hist.sawLoaded = TRUE]
    ELSE w

\* "Start timer only after enemies are loaded"
startTimer(w, t) ==
    LET seen == [w EXCEPT !.hist.sawLoaded = @ \/ cl.enemiesLoaded]
    IN IF w.timerStart = Null /\ cl.enemiesLoaded
       THEN [seen EXCEPT !.timerStart = t, !.hist.starts = @ + 1]
       ELSE seen

\* (the loop evaluating victory before the weapons update)
renderLoopVictoryFirst(w, dt, t) ==
    LET w1 == updatePlayer(w, dt)
        w2 == handleFiring(w1, t)
        w3 == checkVictory(trackInitialCount(w2), t)
        w4 == updateWeapons(w3, dt)
        w5 == updateEffects(w4, dt)
        w6 == updateEnemies(w5, dt)
    IN startTimer(w6, t)

\* one call of renderLoop at wall-clock time t with frame length dt
renderLoop(w, dt, t) ==
    LET w1 == updatePlayer(w, dt)
        w2 == handleFiring(w1, t)
        w3 == updateWeapons(w2, dt)
        w4 == updateEffects(w3, dt)
        w5 == updateEnemies(w4, dt)
        w6 == trackInitialCount(w5)
        w7 == checkVictory(w6, t)
    IN startTimer(w7, t)

\* resetGame up to `await resetEnemies()`; resetPlayer touches the player only
resetPlayer(w) == w

\* (a reset that leaves the start timestamp of the previous run)
resetGameKeepStart(w) ==
    LET w1 == [w EXCEPT !.st.isVictory = FALSE,
                        !.st.finalTime = Null,
                        !.st.isNewBest = FALSE,
                        !.st.destroyedEnemyCount = 0,
                        !.timerStop = Null,
                        !.initialEnemyCount = Null,
                        !.st.enemiesLoaded = FALSE]
    IN resetEnemies(resetPlayer(w1))

resetGame(w) ==
    LET w1 == [w EXCEPT !.st.isVictory = FALSE,
                        !.st.finalTime = Null,
                        !.st.isNewBest = FALSE,
                        !.st.destroyedEnemyCount = 0,
                        !.timerStart = Null,
                        !.timerStop = Null,
                        !.initialEnemyCount = Null,
                        !.st.enemiesLoaded = FALSE]
    IN resetEnemies(resetPlayer(w1))

\* The effects of Game that a committed render runs, `prev` being the values
\* of the render before it.  "Load enemies when scene is ready" runs when
\* enemiesLoaded changed and is false; the asset container is cached by then,
\* so loadEnemies and its `then` complete within the effect's task.  "After
\* reset, wait for enemies to actually be loaded" sets enemiesLoaded as well.
runEffects(w, prev) ==
    LET c == w.st
        w1 == IF c.enemiesLoaded # prev.enemiesLoaded /\ ~c.enemiesLoaded
                 /\ loadState = "loaded"
              THEN [loadEnemies(w) EXCEPT !.st.enemiesLoaded = TRUE]
              ELSE w
    IN IF (c.enemiesLoaded # prev.enemiesLoaded \/ c.droneCount # prev.droneCount)
          /\ ~c.enemiesLoaded /\ (c.droneCount > 0 \/ Len(w.drones) > 0)
       THEN [w1 EXCEPT !.st.enemiesLoaded = TRUE]
       ELSE w1

(* ------------------------------ actions ------------------------------- *)
\* the primed variables of the world record w
Commit(w) ==
    /\ drones' = w.drones
    /\ lasers' = w.lasers
    /\ lastShotTime' = w.lastShotTime
    /\ fireRequested' = w.fireRequested
    /\ explosions' = w.explosions
    /\ sparks' = w.sparks
    /\ timerStart' = w.timerStart
    /\ timerStop' = w.timerStop
    /\ initialEnemyCount' = w.initialEnemyCount
    /\ st' = w.st
    /\ storedBest' = w.storedBest
    /\ hist' = w.hist

\* the world an operation other than a reset starts from
Begin == [World EXCEPT !.hist.justReset = FALSE]

\* a frame: engine.runRenderLoop calls renderLoop
Tick ==
    \E dt \in Steps :
        /\ now + dt <= MaxNow
        /\ now' = now + dt
        /\ Commit(renderLoop([Begin EXCEPT !.hist.steps = <<>>,
                                            !.hist.tickDied = {},
                                            !.hist.tickDestroyed = {},
                                            !.hist.won = FALSE,
                                            !.hist.tickShots = 0,
                                            !.hist.tickTested = {}],
                             dt, now + dt))
        /\ UNCHANGED <<config, loadState, fire, cl>>
        /\ UNCHANGED pure

\* React renders Game with the current state and re-registers the loop
Render ==
    /\ st # cl
    /\ cl' = st
    /\ Commit(runEffects(Begin, cl))
    /\ UNCHANGED <<config, now, loadState, fire>>
    /\ UNCHANGED pure

\* (the click's state updates left for a later render)
renderDeferred(w) == cl

\* the render React runs at the end of the click handler, with the state
\* set and the registry array held when resetGame reaches its first await
renderClick(w) == w.st

\* the "Play Again" button of the victory card: resetGame, then the render
\* and the effects of the click
ResetGame ==
    /\ cl.isVictory /\ cl.finalTime # Null
    /\ hist.resets < MaxResets
    /\ LET w1 == resetGame([World EXCEPT !.hist.justReset = TRUE,
                                          !.hist.resets = @ + 1,
                                          !.hist.steps = <<>>,
                                          !.hist.tickDied = {},
                                          !.hist.tickDestroyed = {},
                                          !.hist.won = FALSE,
                                          !.hist.tickShots = 0,
                                          !.hist.checked = FALSE,
                                          !.hist.seenIds = {},
                                          !.hist.victories = 0,
                                          !.hist.loadedThisRun = 0,
                                          !.hist.destroyedThisRun = 0,
                                          !.hist.starts = 0,
                                          !.hist.sawLoaded = FALSE])
       IN /\ cl' = renderClick(w1)
          /\ Commit(runEffects(w1, cl))
    /\ UNCHANGED <<config, now, loadState, fire>>
    /\ UNCHANGED pure

\* the first loadEnemies resumes after LoadAssetContainerAsync, pushes the
\* drones, and its `then` sets enemiesLoaded
LoadEnemiesDone ==
    /\ loadState = "loading"
    /\ loadState' = "loaded"
    /\ Commit([loadEnemies(Begin) EXCEPT !.st.enemiesLoaded = TRUE])
    /\ UNCHANGED <<config, now, fire, cl>>
    /\ UNCHANGED pure

\* LoadAssetContainerAsync rejects: the catch logs, and `then` still runs
LoadEnemiesFail ==
    /\ loadState = "loading"
    /\ loadState' = "failed"
    /\ Commit([Begin EXCEPT !.st.enemiesLoaded = TRUE])
    /\ UNCHANGED <<config, now, fire, cl>>
    /\ UNCHANGED pure

\* handleKeyDown for Space
KeyDownSpace ==
    /\ ~(fireRequested /\ fire)
    /\ fire' = TRUE
    /\ Commit([Begin EXCEPT !.fireRequested = TRUE])
    /\ UNCHANGED <<config, now, loadState, cl>>
    /\ UNCHANGED pure

\* handleKeyUp for Space
KeyUpSpace ==
    /\ fire
    /\ fire' = FALSE
    /\ Commit(Begin)
    /\ UNCHANGED <<config, now, loadState, cl>>
    /\ UNCHANGED pure

\* best times a previous session may have left in localStorage
StoredBests == {Null, 240}

InitHist ==
    [justReset |-> FALSE, steps |-> <<>>,
     hits |-> <<>>, destroyedEvents |-> <<>>, removals |-> <<>>,
     tickDied |-> {}, tickDestroyed |-> {}, won |-> FALSE,
     loadedThisRun |-> 0, destroyedThisRun |-> 0,
     explosionsSpawned |-> 0, sparksSpawned |-> 0,
     victories |-> 0, storeReads |-> 1, writes |-> <<>>,
     resets |-> 0, checked |-> FALSE, seenIds |-> {}, seenDestroyed |-> 0,
     starts |-> 0, sawLoaded |-> FALSE,
     shots |-> <<>>, tickShots |-> 0,
     laserEnds |-> <<>>, laserHits |-> <<>>, tickTested |-> {},
     events |-> <<>>]

\* Game is mounted, the scene is ready, the loop is registered, the first
\* loadEnemies awaits the asset container; the mount effect has read the
\* stored best time
GameInit ==
    /\ config \in Configs
    /\ storedBest \in StoredBests
    /\ now = 0
    /\ loadState = "loading"
    /\ drones = <<>>
    /\ lasers = <<>>
    /\ lastShotTime = 0
    /\ fireRequested = FALSE
    /\ fire = FALSE
    /\ explosions = <<>>
    /\ sparks = <<>>
    /\ timerStart = Null
    /\ timerStop = Null
    /\ initialEnemyCount = Null
    /\ st = [enemiesLoaded |-> FALSE, isVictory |-> FALSE, finalTime |-> Null,
             bestTime |-> storedBest, isNewBest |-> FALSE,
             destroyedEnemyCount |-> 0, droneCount |-> 0, dronesRef |-> 0]
    /\ cl = st
    /\ hist = InitHist

\* no drone is under test
NoProbe == [stage |-> "none"]

\* the player is not flown
NoShip == [stage |-> "none"]

\* no drone is moved
NoFleet == [stage |-> "none"]

\* no particle hook
NoFx == [stage |-> "none"]

Init == GameInit /\ probe = NoProbe /\ ship = NoShip /\ fleet = NoFleet /\ fx = NoFx

Next ==
    \/ Tick
    \/ Render
    \/ ResetGame
    \/ LoadEnemiesDone
    \/ LoadEnemiesFail
    \/ KeyDownSpace
    \/ KeyUpSpace

Spec == Init /\ [][Next]_vars

(* ------------------- bounds.ts and the drone hit test ------------------ *)
\* largest number of meshes under a drone's root
MaxMeshes == 2

\* the extent of a mesh's bounding box on one axis, <<low, high>>
Intervals == {<<0, 0>>, <<-4, 4>>, <<0, 4>>}

\* a mesh, by the two extreme corners of its bounding box
Meshes == {[lo |-> <<x[1], y[1], z[1]>>, hi |-> <<x[2], y[2], z[2]>>] :
              x \in Intervals, y \in Intervals, z \in Intervals}
MeshSets == UNION {[1..n -> Meshes] : n \in 0..MaxMeshes}

\* boundingBox.vectorsWorld: the eight corners of a mesh's box
Corners(mesh) ==
    {<<x, y, z>> : x \in {mesh.lo[1], mesh.hi[1]}, y \in {mesh.lo[2], mesh.hi[2]},
                   z \in {mesh.lo[3], mesh.hi[3]}}

MinOf(S) == CHOOSE x \in S : \A y \in S : x <= y
MaxOf(S) == CHOOSE x \in S : \A y \in S : x >= y

\* no worldToLocal: the corners are taken as they are
getBoundsFromMeshes(meshes) ==
    IF Len(meshes) = 0
    THEN [min |-> <<0, 0, 0>>, max |-> <<0, 0, 0>>]
    ELSE LET points == UNION {Corners(meshes[i]) : i \in 1..Len(meshes)}
         IN [min |-> [a \in 1..3 |-> MinOf({q[a] : q \in points})],
             max |-> [a \in 1..3 |-> MaxOf({q[a] : q \in points})]]

\* the coordinates are even, so the halves are exact
boundsToCollision(bounds) ==
    LET sum == VAdd(bounds.min, bounds.max)
        extent == VSub(bounds.max, bounds.min)
        radii == [a \in 1..3 |-> extent[a] \div 2]
    IN [center |-> [a \in 1..3 |-> sum[a] \div 2],
        radii |-> radii,
        radius |-> MaxOf({radii[a] : a \in 1..3})]

\* the epsilon of "radii * (1 + epsilon)", a half
Eps == [num |-> 1, den |-> 2]

Unit(axis) == [a \in 1..3 |-> IF a = axis THEN 1 ELSE 0]

\* the points tested: the centre; centre + radii * (1 + epsilon) along one
\* axis, either way; the points 1 and 2 away from the centre along one axis
PointKinds == {"center", "beyond", "near", "far"}
PointAt(c, kind, axis, sign) ==
    CASE kind = "center" -> c.center
      [] kind = "beyond" ->
            VAdd(c.center,
                 VScale(Unit(axis), sign * ((c.radii[axis] * (Eps.den + Eps.num)) \div Eps.den)))
      [] kind = "near" -> VAdd(c.center, VScale(Unit(axis), sign))
      [] kind = "far" -> VAdd(c.center, VScale(Unit(axis), 2 * sign))

\* the drone loop's test of one drone: offset = laserLocal - collisionCenter,
\* then `inside`
HitTest(collision, position) == Inside(VSub(position, collision.center), collision.radii)

NoCollision == [center |-> <<0, 0, 0>>, radii |-> <<0, 0, 0>>, radius |-> 0]

HitInit ==
    /\ GameInit
    /\ config.count = 1 /\ config.health = 1 /\ config.victory.type = "destroy-all"
    /\ config.laserLifetime = 180 /\ storedBest = Null
    /\ ship = NoShip /\ fleet = NoFleet /\ fx = NoFx
    /\ \E meshes \in MeshSets :
          probe = [stage |-> "meshes", meshes |-> meshes, collision |-> NoCollision,
                   kind |-> "center", axis |-> 1, position |-> <<0, 0, 0>>,
                   inside |-> FALSE]

\* loadEnemies: the drone's collision centre and radii from its meshes
BuildDrone ==
    /\ probe.stage = "meshes"
    /\ probe' = [probe EXCEPT !.stage = "built",
                             !.collision = boundsToCollision(getBoundsFromMeshes(probe.meshes))]
    /\ UNCHANGED <<game, ship, fleet, fx>>

\* updateWeapons: a laser at `position` is tested against the drone
TestPoint ==
    /\ probe.stage = "built"
    /\ \E kind \in PointKinds, axis \in 1..3, sign \in {-1, 1} :
          LET position == PointAt(probe.collision, kind, axis, sign)
          IN probe' = [probe EXCEPT !.stage = "tested",
                                    !.kind = kind, !.axis = axis,
                                    !.position = position,
                                    !.inside = HitTest(probe.collision, position)]
    /\ UNCHANGED <<game, ship, fleet, fx>>

HitNext == BuildDrone \/ TestPoint

HitSpec == HitInit /\ [][HitNext]_vars

(* ------------------------ usePlayer.updatePlayer ----------------------- *)
\* Lengths in dm, linear velocity in dm/s, angular velocity in mrad/s, dt in
\* ms, damping bases in thousandths.  Products are cut to integers towards
\* zero; the heading is Vector3.Forward() in world space, times 5.

\* number of updatePlayer calls in a behaviour
MaxPlayerTicks == 2

\* n / d cut towards zero
Trunc(n, d) == IF n >= 0 THEN n \div d ELSE -((-n) \div d)

VTrunc(v, num, den) ==
    <<Trunc(v[1] * num, den), Trunc(v[2] * num, den), Trunc(v[3] * num, den)>>
Dot(a, b) == a[1] * b[1] + a[2] * b[2] + a[3] * b[3]

\* the integer part of the square root of n, found bit by bit: r is the root
\* so far, b the bit tried next
RECURSIVE SqrtIn(_, _, _)
SqrtIn(n, r, b) ==
    IF b = 0 THEN r
    ELSE IF (r + b) * (r + b) <= n THEN SqrtIn(n, r + b, b \div 2)
         ELSE SqrtIn(n, r, b \div 2)

\* Vector3.length()
Length(v) == SqrtIn(Dot(v, v), 0, 2048)

\* config.player of the levels flown
PlayerConfigs ==
    {[maxSpeed |-> 500, thrustAccel |-> 5000, angularAccel |-> 3900,
      linearDamping |-> d, angularDamping |-> 900, radius |-> 11] : d \in {1000, 995}}

\* frame lengths of the player's ticks
PlayerSteps == {0} \cup Steps

\* (no damping)
PowOne(base, dt) == 1000

\* Math.pow(base, dt * 60), in thousandths
Pow(base, dt) ==
    CASE base = 1000 \/ dt = 0 -> 1000
      [] base = 995 /\ dt = 60 -> 982
      [] base = 995 /\ dt = 120 -> 964
      [] base = 900 /\ dt = 60 -> 684
      [] base = 900 /\ dt = 120 -> 468
      [] base = 500 /\ dt = 60 -> 82
      [] base = 500 /\ dt = 120 -> 6

\* the control states handleKeyDown and handleKeyUp leave, of which a tick
\* reads one
NoControl ==
    [throttle |-> FALSE, reverse |-> FALSE, yawLeft |-> FALSE, yawRight |-> FALSE,
     pitchUp |-> FALSE, pitchDown |-> FALSE, rollLeft |-> FALSE, rollRight |-> FALSE]
ControlStates ==
    {NoControl,
     [NoControl EXCEPT !.throttle = TRUE],
     [NoControl EXCEPT !.reverse = TRUE, !.yawRight = TRUE],
     [NoControl EXCEPT !.throttle = TRUE, !.pitchUp = TRUE, !.rollLeft = TRUE]}

\* headings a rotation may leave, as 5 * forward
Directions == {<<0, 0, 5>>, <<3, 0, 4>>, <<-5, 0, 0>>}

\* environmentState.collisionBodies of the levels flown
BodyA == [center |-> <<0, 0, 0>>, radius |-> 19]
BodyB == [center |-> <<0, 0, 41>>, radius |-> 19]
Environments == {<< >>, <<BodyA>>, <<BodyA, BodyB>>}

\* positions and linear velocities the player may have when a tick starts
Starts ==
    {[position |-> <<0, 0, -60>>, velocity |-> <<0, 0, 0>>],
     [position |-> <<0, 0, -30>>, velocity |-> <<0, 0, 500>>],
     [position |-> <<0, 0, -40>>, velocity |-> <<0, 0, 500>>],
     [position |-> <<30, 0, 20>>, velocity |-> <<-500, 0, 0>>]}

B2N(b) == IF b THEN 1 ELSE 0

\* "Angular acceleration" and "Angular damping"
AngularStep(omega, c, cfg, dt) ==
    LET pitchInput == B2N(c.pitchUp) - B2N(c.pitchDown)
        yawInput == B2N(c.yawRight) - B2N(c.yawLeft)
        rollInput == B2N(c.rollLeft) - B2N(c.rollRight)
        accelerated == <<omega[1] + Trunc(pitchInput * cfg.angularAccel * dt, 1000),
                         omega[2] + Trunc(yawInput * cfg.angularAccel * dt, 1000),
                         omega[3] + Trunc(rollInput * cfg.angularAccel * dt, 1000)>>
    IN VTrunc(accelerated, Pow(cfg.angularDamping, dt), 1000)

\* "Apply rotation": a rotation about the local X or Y axis by a non-zero
\* angle turns the heading to some other unit vector; one about Z keeps it
Headings(forward, omega, dt) ==
    IF dt > 0 /\ (omega[1] # 0 \/ omega[2] # 0) THEN Directions ELSE {forward}

\* "Linear thrust" and "Linear damping"
LinearStep(velocity, forward, c, cfg, dt) ==
    LET v1 == IF c.throttle
              THEN VAdd(velocity, VTrunc(forward, cfg.thrustAccel * dt, 5 * 1000))
              ELSE velocity
        v2 == IF c.reverse
              THEN VAdd(v1, VTrunc(forward, -(cfg.thrustAccel * 7 * dt), 5 * 10 * 1000))
              ELSE v1
    IN VTrunc(v2, Pow(cfg.linearDamping, dt), 1000)

\* (no speed limit)
SpeedLimitOff(velocity, cfg) == velocity

\* "Speed limit"
SpeedLimit(velocity, cfg) ==
    LET speed == Length(velocity)
    IN IF speed > cfg.maxSpeed THEN VTrunc(velocity, cfg.maxSpeed, speed) ELSE velocity

\* Vector3.normalize() followed by scale(k): a zero vector stays as it is
NormalizeScale(v, k) ==
    LET len == Length(v)
    IN IF len = 0 THEN v ELSE VTrunc(v, k, len)

\* the first body of the list the tentative position collides with (0: none)
RECURSIVE FirstBody(_, _, _, _)
FirstBody(bodies, nextPosition, radius, i) ==
    IF i > Len(bodies) THEN 0
    ELSE LET toShip == VSub(nextPosition, bodies[i].center)
             minDistance == bodies[i].radius + radius
         IN IF Dot(toShip, toShip) < minDistance * minDistance THEN i
            ELSE FirstBody(bodies, nextPosition, radius, i + 1)

\* (the player pushed to the body's own radius)
PushOutToBody(body, nextPosition, radius) ==
    VAdd(body.center, NormalizeScale(VSub(nextPosition, body.center), body.radius))

\* "Push player outside the body"
PushOut(body, nextPosition, radius) ==
    VAdd(body.center,
         NormalizeScale(VSub(nextPosition, body.center), body.radius + radius))

\* one call of updatePlayer with the control state c, the frame length dt and
\* the heading the rotation leaves
updatePlayerTick(s, c, dt, forward) ==
    LET cfg == s.cfg
        omega == AngularStep(s.angularVelocity, c, cfg, dt)
        damped == LinearStep(s.linearVelocity, forward, c, cfg, dt)
        limited == SpeedLimit(damped, cfg)
        nextPosition == VAdd(s.position, VTrunc(limited, dt, 1000))
        hit == FirstBody(s.bodies, nextPosition, cfg.radius, 1)
    IN [s EXCEPT !.stage = "flying",
                 !.ticks = @ + 1,
                 !.control = c,
                 !.angularVelocity = omega,
                 !.forward = forward,
                 !.linearVelocity = IF hit # 0 THEN VTrunc(limited, 2, 10) ELSE limited,
                 !.position = IF hit # 0
                              THEN PushOut(s.bodies[hit], nextPosition, cfg.radius)
                              ELSE nextPosition,
                 !.nextPosition = nextPosition,
                 !.hit = hit,
                 !.before = limited,
                 !.clamped = Length(damped) > cfg.maxSpeed,
                 !.lastDt = dt]

PlayerInit ==
    /\ GameInit
    /\ config.count = 1 /\ config.health = 1 /\ config.victory.type = "destroy-all"
    /\ config.laserLifetime = 180 /\ storedBest = Null
    /\ probe = NoProbe /\ fleet = NoFleet /\ fx = NoFx
    /\ \E cfg \in PlayerConfigs, bodies \in Environments, start \in Starts :
          /\ FirstBody(bodies, start.position, cfg.radius, 1) = 0
          /\ ship = [stage |-> "start", ticks |-> 0, cfg |-> cfg, bodies |-> bodies,
                      control |-> NoControl,
                      position |-> start.position, linearVelocity |-> start.velocity,
                      angularVelocity |-> <<0, 0, 0>>, forward |-> <<0, 0, 5>>,
                      nextPosition |-> start.position, hit |-> 0,
                      before |-> start.velocity, clamped |-> FALSE, lastDt |-> 0]

\* a frame of the render loop: updatePlayer(dt, environmentState)
UpdatePlayer ==
    /\ ship.stage # "none"
    /\ ship.ticks < MaxPlayerTicks
    /\ \E c \in ControlStates, dt \in PlayerSteps :
          \E forward \in Headings(ship.forward,
                                  AngularStep(ship.angularVelocity, c, ship.cfg, dt), dt) :
              ship' = updatePlayerTick(ship, c, dt, forward)
    /\ UNCHANGED <<game, probe, fleet, fx>>

PlayerNext == UpdatePlayer

PlayerSpec == PlayerInit /\ [][PlayerNext]_vars

(* ---------------- updatePlayer with no control held -------------------- *)
\* player configurations whose damping factors lie in (0,1)
DampConfigs ==
    {[maxSpeed |-> 500, thrustAccel |-> 5000, angularAccel |-> 3900,
      linearDamping |-> l, angularDamping |-> a, radius |-> 11] :
          l \in {995, 500}, a \in {900, 500}}

\* angular velocities the player may have when the controls are released
Spins == {<<0, 0, 0>>, <<234, 0, 0>>, <<0, -468, 117>>}

\* neither turning nor moving
Still(s) == s.angularVelocity = <<0, 0, 0>> /\ s.linearVelocity = <<0, 0, 0>>

DampInit ==
    /\ GameInit
    /\ config.count = 1 /\ config.health = 1 /\ config.victory.type = "destroy-all"
    /\ config.laserLifetime = 180 /\ storedBest = Null
    /\ probe = NoProbe /\ fleet = NoFleet /\ fx = NoFx
    /\ \E cfg \in DampConfigs, bodies \in Environments, start \in Starts,
          spin \in Spins, dt \in Steps :
          /\ FirstBody(bodies, start.position, cfg.radius, 1) = 0
          /\ ship = [stage |-> "start", ticks |-> 0, cfg |-> cfg, bodies |-> bodies,
                      control |-> NoControl,
                      position |-> start.position, linearVelocity |-> start.velocity,
                      angularVelocity |-> spin, forward |-> <<0, 0, 5>>,
                      nextPosition |-> start.position, hit |-> 0,
                      before |-> start.velocity, clamped |-> FALSE, lastDt |-> 0,
                      dt |-> dt, spin0 |-> spin, velocity0 |-> start.velocity]

\* a frame of the render loop with no key held and the frame length of the
\* behaviour; ticks counts the frames that began with the player not still
Coast ==
    /\ \E forward \in Headings(ship.forward,
                                AngularStep(ship.angularVelocity, NoControl, ship.cfg, ship.dt),
                                ship.dt) :
          LET t == updatePlayerTick(ship, NoControl, ship.dt, forward)
          IN ship' = IF Still(ship) THEN [t EXCEPT !.ticks = ship.ticks] ELSE t
    /\ UNCHANGED <<game, probe, fleet, fx>>

DampNext == Coast

DampSpec == DampInit /\ [][DampNext]_vars

(* ------------------ useEnemies: the tractor beam -------------------- *)
\* Times in ms; lumpProgress is kept as the beaming time it stands for
\* (progress * duration), so progress >= 1 reads lumpProgress >= duration.

\* simulated time of a behaviour of the beams, in ms: of one drone, and of
\* two drones side by side
MaxBeamTime == 12000
MaxPairTime == 4000

\* enemies.count of the levels
FleetSizes == {1, 2}

\* frame lengths of the enemies' ticks
BeamSteps == {0, 500, 1000}

\* outcomes of Math.random(), in thousandths
Randoms == {0, 500, 999}

\* config.tractorBeam of the levels: none, disabled, the embrium beam
NoBeam == [present |-> FALSE, enabled |-> FALSE, delayMin |-> 0, delayMax |-> 0,
           duration |-> 0]
EmbriumBeam == [present |-> TRUE, enabled |-> TRUE, delayMin |-> 1000,
                delayMax |-> 5000, duration |-> 2500]
Beams == {NoBeam, [EmbriumBeam EXCEPT !.enabled = FALSE], EmbriumBeam}

\* (the delay drawn from 0 .. delayMax - delayMin)
getRandomBeamDelayNoMin(beam, r) ==
    IF ~beam.present THEN 1000
    ELSE (r * (beam.delayMax - beam.delayMin)) \div 1000

\* getRandomBeamDelay with Math.random() = r / 1000
getRandomBeamDelay(beam, r) ==
    IF ~beam.present THEN 1000
    ELSE beam.delayMin + (r * (beam.delayMax - beam.delayMin)) \div 1000

\* the beam fields of a drone pushed by loadEnemies; since, gap, hideDt and
\* showDt observe the time from one "beam visible" to the next
NewBeam(beam, r1, r2) ==
    [beamState |-> "waiting",
     beamTimer |-> (getRandomBeamDelay(beam, r1) * r2) \div 1000,
     lumpProgress |-> 0, visible |-> FALSE,
     since |-> Null, gap |-> Null, hideDt |-> 0, showDt |-> 0, shown |-> 0]

\* the surface radius updateEnemies computes
SurfaceRadius(beam, bodies) ==
    IF beam.enabled /\ Len(bodies) > 0 THEN bodies[1].radius ELSE 0

\* (the progress kept when the state goes back to waiting)
BeamStepKeepProgress(d, beam, surfaceRadius, dt, r) ==
    LET aged == [d EXCEPT !.since = IF @ = Null THEN Null ELSE @ + dt]
    IN IF ~(beam.enabled /\ surfaceRadius > 0) THEN aged
       ELSE IF d.beamState = "waiting"
       THEN IF d.beamTimer - dt <= 0
            THEN [aged EXCEPT !.beamTimer = d.beamTimer - dt,
                              !.beamState = "beaming", !.lumpProgress = 0,
                              !.visible = TRUE,
                              !.gap = aged.since, !.since = 0, !.showDt = dt,
                              !.shown = @ + 1]
            ELSE [aged EXCEPT !.beamTimer = d.beamTimer - dt]
       ELSE IF d.beamState = "beaming"
       THEN IF d.lumpProgress + dt >= beam.duration
            THEN [aged EXCEPT !.beamState = "waiting",
                              !.beamTimer = getRandomBeamDelay(beam, r),
                              !.visible = FALSE,
                              !.lumpProgress = d.lumpProgress + dt, !.hideDt = dt]
            ELSE [aged EXCEPT !.lumpProgress = d.lumpProgress + dt]
       ELSE aged

\* (the timer of a waiting drone not counted down)
BeamStepNoCountdown(d, beam, surfaceRadius, dt, r) ==
    LET aged == [d EXCEPT !.since = IF @ = Null THEN Null ELSE @ + dt]
    IN IF ~(beam.enabled /\ surfaceRadius > 0) THEN aged
       ELSE IF d.beamState = "waiting"
       THEN IF d.beamTimer - dt <= 0
            THEN [aged EXCEPT !.beamTimer = d.beamTimer - dt,
                              !.beamState = "beaming", !.lumpProgress = 0,
                              !.visible = TRUE,
                              !.gap = aged.since, !.since = 0, !.showDt = dt,
                              !.shown = @ + 1]
            ELSE aged
       ELSE IF d.beamState = "beaming"
       THEN IF d.lumpProgress + dt >= beam.duration
            THEN [aged EXCEPT !.beamState = "waiting",
                              !.beamTimer = getRandomBeamDelay(beam, r),
                              !.visible = FALSE,
                              !.lumpProgress = 0, !.hideDt = dt]
            ELSE [aged EXCEPT !.lumpProgress = d.lumpProgress + dt]
       ELSE aged

\* (the beam hidden one tick after the state went back to waiting)
BeamStepLateHide(d, beam, surfaceRadius, dt, r) ==
    LET aged == [d EXCEPT !.since = IF @ = Null THEN Null ELSE @ + dt]
    IN IF ~(beam.enabled /\ surfaceRadius > 0) THEN aged
       ELSE IF d.beamState = "waiting"
       THEN IF d.beamTimer - dt <= 0
            THEN [aged EXCEPT !.beamTimer = d.beamTimer - dt,
                              !.beamState = "beaming", !.lumpProgress = 0,
                              !.visible = TRUE,
                              !.gap = aged.since, !.since = 0, !.showDt = dt,
                              !.shown = @ + 1]
            ELSE [aged EXCEPT !.beamTimer = d.beamTimer - dt, !.visible = FALSE]
       ELSE IF d.beamState = "beaming"
       THEN IF d.lumpProgress + dt >= beam.duration
            THEN [aged EXCEPT !.beamState = "waiting",
                              !.beamTimer = getRandomBeamDelay(beam, r),
                              !.lumpProgress = 0, !.hideDt = dt]
            ELSE [aged EXCEPT !.lumpProgress = d.lumpProgress + dt]
       ELSE aged

\* "Update beam state" of updateEnemies for one drone, with Math.random() =
\* r / 1000 should a delay be drawn
BeamStep(d, beam, surfaceRadius, dt, r) ==
    LET aged == [d EXCEPT !.since = IF @ = Null THEN Null ELSE @ + dt]
    IN IF ~(beam.enabled /\ surfaceRadius > 0) THEN aged
       ELSE IF d.beamState = "waiting"
       THEN IF d.beamTimer - dt <= 0
            THEN [aged EXCEPT !.beamTimer = d.beamTimer - dt,
                              !.beamState = "beaming", !.lumpProgress = 0,
                              !.visible = TRUE,
                              !.gap = aged.since, !.since = 0, !.showDt = dt,
                              !.shown = @ + 1]
            ELSE [aged EXCEPT !.beamTimer = d.beamTimer - dt]
       ELSE IF d.beamState = "beaming"
       THEN IF d.lumpProgress + dt >= beam.duration
            THEN [aged EXCEPT !.beamState = "waiting",
                              !.beamTimer = getRandomBeamDelay(beam, r),
                              !.visible = FALSE,
                              !.lumpProgress = 0, !.hideDt = dt]
            ELSE [aged EXCEPT !.lumpProgress = d.lumpProgress + dt]
       ELSE aged

BeamInit ==
    /\ GameInit
    /\ config.count = 1 /\ config.health = 1 /\ config.victory.type = "destroy-all"
    /\ config.laserLifetime = 180 /\ storedBest = Null
    /\ probe = NoProbe /\ ship = NoShip /\ fx = NoFx
    /\ \E beam \in Beams, bodies \in {<< >>, <<BodyA>>} :
          fleet = [stage |-> "load", beam |-> beam, bodies |-> bodies,
                   drones |-> << >>, elapsed |-> 0]

\* loadEnemies pushes the drones, each with its own draws for the first timer
LoadBeams ==
    /\ fleet.stage = "load"
    /\ \E n \in FleetSizes : \E r1, r2 \in [1..n -> Randoms] :
          fleet' = [fleet EXCEPT !.stage = "beam",
                                 !.drones = [i \in 1..n |->
                                                NewBeam(fleet.beam, r1[i], r2[i])]]
    /\ UNCHANGED <<game, probe, ship, fx>>

\* updateEnemies(dt, environmentState): the beam of every drone
TickBeams ==
    /\ fleet.stage = "beam"
    /\ \E dt \in BeamSteps : \E r \in [1..Len(fleet.drones) -> Randoms] :
          /\ fleet.elapsed + dt
                <= IF Len(fleet.drones) = 1 THEN MaxBeamTime ELSE MaxPairTime
          /\ fleet' = [fleet EXCEPT
                 !.elapsed = @ + dt,
                 !.drones = [i \in 1..Len(fleet.drones) |->
                                BeamStep(fleet.drones[i], fleet.beam,
                                         SurfaceRadius(fleet.beam, fleet.bodies),
                                         dt, r[i])]]
    /\ UNCHANGED <<game, probe, ship, fx>>

BeamNext == LoadBeams \/ TickBeams

BeamSpec == BeamInit /\ [][BeamNext]_vars

(* --------------- the tractor beam under ticks without end -------------- *)
\* The drones carry the beam fields of the program only, so that a behaviour
\* can go through any number of beams.

\* frame lengths of the ticks that let time pass
CycleSteps == {500, 1000}

\* "Update beam state" on the program's fields of a drone
CycleStep(d, beam, surfaceRadius, dt, r) ==
    LET e == BeamStep(d, beam, surfaceRadius, dt, r)
    IN [d EXCEPT !.beamState = e.beamState, !.beamTimer = e.beamTimer,
                 !.lumpProgress = e.lumpProgress, !.visible = e.visible]

\* fleet.returned holds the drones that went from beaming back to waiting
CycleInit ==
    /\ GameInit
    /\ config.count = 1 /\ config.health = 1 /\ config.victory.type = "destroy-all"
    /\ config.laserLifetime = 180 /\ storedBest = Null
    /\ probe = NoProbe /\ ship = NoShip /\ fx = NoFx
    /\ \E beam \in Beams, bodies \in {<< >>, <<BodyA>>} :
          fleet = [stage |-> "spawned", beam |-> beam, bodies |-> bodies,
                   drones |-> << >>, returned |-> {}]

\* loadEnemies pushes the drones
LoadCycle ==
    /\ fleet.stage = "spawned"
    /\ \E n \in FleetSizes : \E r1, r2 \in [1..n -> Randoms] :
          fleet' = [fleet EXCEPT !.stage = "cycle",
                                 !.drones = [i \in 1..n |->
                                                NewBeam(fleet.beam, r1[i], r2[i])]]
    /\ UNCHANGED <<game, probe, ship, fx>>

\* updateEnemies(dt, environmentState) with dt > 0: the beam of every drone
TickCycle ==
    /\ fleet.stage = "cycle"
    /\ \E dt \in CycleSteps : \E r \in [1..Len(fleet.drones) -> Randoms] :
          LET after == [i \in 1..Len(fleet.drones) |->
                           CycleStep(fleet.drones[i], fleet.beam,
                                     SurfaceRadius(fleet.beam, fleet.bodies),
                                     dt, r[i])]
          IN fleet' = [fleet EXCEPT
                 !.drones = after,
                 !.returned = @ \cup {i \in 1..Len(after) :
                                        /\ fleet.drones[i].beamState = "beaming"
                                        /\ after[i].beamState = "waiting"}]
    /\ UNCHANGED <<game, probe, ship, fx>>

CycleNext == LoadCycle \/ TickCycle

\* the render loop keeps calling updateEnemies, and loadEnemies completes
CycleSpec ==
    CycleInit /\ [][CycleNext]_vars /\ WF_vars(LoadCycle) /\ WF_vars(TickCycle)

(* ------------------ useEnemies: the movement models ------------------ *)
\* Lengths in dm, patrol and random-area speeds in dm/s, dt and the clock in
\* ms; orbital speeds and angles in 1e-5 rad/ms and 1e-5 rad, enemies.maxSpeed
\* in the unit that makes maxSpeed / radius an orbital speed.  An orbital
\* position is kept as the orbit coordinates it is computed from:
\* centre + RotationY(angle) * RotationZ(tilt) * (radius, 0, 0).

\* the clock of a behaviour of orbital drones, in ms
MaxMoveTime == 3000

\* direction changes drawn by the random-area drones of a behaviour
MaxTurns == 2

\* frame lengths of the enemies' ticks when drones move
MoveSteps == {100, 500}

\* environmentState.centerPoint
CenterPoint == <<0, 0, 0>>

\* a planet as first collision body
Planet == [center |-> <<0, 0, 0>>, radius |-> 2560]

\* config.enemies.movement of the levels
OrbitalMovement ==
    [type |-> "orbital", altitudes |-> {100, 250}, speeds |-> {8, 20},
     tilts |-> {0, 300}, angles |-> {0, 157080}]
PatrolMovement ==
    [type |-> "patrol", area |-> [center |-> <<0, 0, 0>>, radius |-> 60],
     speed |-> 100]
RandomAreaMovement ==
    [type |-> "random-area", area |-> [center |-> <<0, 0, 0>>, radius |-> 60],
     speeds |-> {50}, directionChangeInterval |-> 2500]
StationaryMovement ==
    [type |-> "stationary", positions |-> <<<<100, 0, 0>>, <<0, 0, 200>>>>]
Movements == {OrbitalMovement, PatrolMovement, RandomAreaMovement, StationaryMovement}

\* enemies.maxSpeed
EnemyMaxSpeed == 20000

\* outcomes of the area-sampling rule of getRandomPosition
AreaSamples == {<<0, 25, 0>>, <<0, 0, -50>>, <<30, 0, 0>>}

\* outcomes of the random direction of a random-area drone, times its speed
RandomVelocities(speed) == {<<speed, 0, 0>>, <<-speed, 0, 0>>}

\* getRandomPosition(index, environmentState) for the movement models that
\* call it, index counted from 0: the set of its outcomes
getRandomPosition(movement, index) ==
    CASE movement.type \in {"patrol", "random-area"} ->
             {VAdd(movement.area.center, p) : p \in AreaSamples}
      [] movement.type = "stationary" ->
             {movement.positions[(index % Len(movement.positions)) + 1]}

\* centre + RotationY(angle) * RotationZ(tilt) * (radius, 0, 0); with radius
\* 0 it is the centre
OrbitPoint(center, radius, tilt, angle) ==
    [center |-> center, radius |-> radius,
     tilt |-> IF radius = 0 THEN 0 ELSE tilt,
     angle |-> IF radius = 0 THEN 0 ELSE angle]

\* the drones loadEnemies may push for index i (from 0): the node is a fresh
\* TransformNode, its position is never assigned
NewMovers(movement, i) ==
    LET base == [index |-> i, position |-> <<0, 0, 0>>, angle |-> 0, angle0 |-> 0,
                 speed |-> 0,
                 tilt |-> 0, altitude |-> 0, hasTarget |-> FALSE,
                 targetPosition |-> <<0, 0, 0>>,
                 velocity |-> <<0, 0, 0>>, radius |-> Null, omega |-> Null,
                 arrived |-> FALSE, moved |-> FALSE]
    IN CASE movement.type = "orbital" ->
                {[base EXCEPT !.angle = a, !.angle0 = a, !.speed = v, !.tilt = t, !.altitude = h,
                              !.position = OrbitPoint(<<0, 0, 0>>, 0, 0, 0)] :
                    a \in movement.angles, v \in movement.speeds,
                    t \in movement.tilts, h \in movement.altitudes}
         [] movement.type = "patrol" ->
                {[base EXCEPT !.speed = movement.speed, !.velocity = <<0, 0, 0>>]}
         [] movement.type = "random-area" ->
                {[base EXCEPT !.speed = v, !.velocity = u] :
                    v \in movement.speeds, u \in UNION {RandomVelocities(w) :
                                                            w \in movement.speeds}}
         [] movement.type = "stationary" -> {base}

\* the smaller of two numbers
Min2(a, b) == IF a <= b THEN a ELSE b

\* the orbit radius: drone.altitude + surfaceRadius
OrbitRadius(d, beam, bodies) == d.altitude + SurfaceRadius(beam, bodies)

\* (the angle advanced from the angle the last tick left)
MoveOrbitalAccumulated(d, f, nowMs) ==
    LET radius == OrbitRadius(d, f.beam, f.bodies)
        omega == IF radius = 0 THEN d.speed
                 ELSE Min2(d.speed, EnemyMaxSpeed \div radius)
        angle == d.angle + nowMs * omega
    IN [d EXCEPT !.position = OrbitPoint(CenterPoint, radius, d.tilt, angle),
                 !.angle = angle,
                 !.radius = radius, !.omega = omega,
                 !.moved = d.position # OrbitPoint(CenterPoint, radius, d.tilt, angle)]

\* case "orbital" of updateEnemies; a radius of 0 makes maxOmega Infinity
MoveOrbital(d, f, nowMs) ==
    LET radius == OrbitRadius(d, f.beam, f.bodies)
        omega == IF radius = 0 THEN d.speed
                 ELSE Min2(d.speed, EnemyMaxSpeed \div radius)
        angle == d.angle + nowMs * omega
    IN [d EXCEPT !.position = OrbitPoint(CenterPoint, radius, d.tilt, angle),
                 !.radius = radius, !.omega = omega,
                 !.moved = d.position # OrbitPoint(CenterPoint, radius, d.tilt, angle)]

\* case "patrol" of updateEnemies; target is the outcome of getRandomPosition
\* should it be called
MovePatrol(d, f, dt, target) ==
    LET goal == IF d.hasTarget THEN d.targetPosition ELSE target
        toGoal == VSub(goal, d.position)
    IN IF Dot(toGoal, toGoal) < 20 * 20
       THEN [d EXCEPT !.hasTarget = TRUE, !.targetPosition = target,
                      !.arrived = TRUE, !.moved = FALSE]
       ELSE [d EXCEPT !.hasTarget = TRUE, !.targetPosition = goal, !.arrived = FALSE,
                      !.position = VAdd(@, NormalizeScale(toGoal, (d.speed * dt) \div 1000)),
                      !.moved = NormalizeScale(toGoal, (d.speed * dt) \div 1000)
                                    # <<0, 0, 0>>]

\* case "random-area" of updateEnemies; turn says whether Math.random() fell
\* below dt / interval, velocity is the direction drawn if it did
MoveRandomArea(d, f, dt, turn, velocity) ==
    LET v1 == IF turn /\ dt > 0 THEN velocity ELSE d.velocity
        position == VAdd(d.position, VTrunc(v1, dt, 1000))
        toCenter == VSub(f.movement.area.center, position)
        limit == (f.movement.area.radius * 9) \div 10
        v2 == IF Dot(toCenter, toCenter) > limit * limit
              THEN NormalizeScale(toCenter, d.speed) ELSE v1
    IN [d EXCEPT !.position = position, !.velocity = v2,
                 !.moved = position # d.position]

\* case "stationary" of updateEnemies
MoveStationary(d) == [d EXCEPT !.moved = FALSE]

\* the movement switch of updateEnemies for one drone
MoveDrone(d, f, dt, nowMs, target, turn, velocity) ==
    CASE f.movement.type = "orbital" -> MoveOrbital(d, f, nowMs)
      [] f.movement.type = "patrol" -> MovePatrol(d, f, dt, target)
      [] f.movement.type = "random-area" -> MoveRandomArea(d, f, dt, turn, velocity)
      [] f.movement.type = "stationary" -> MoveStationary(d)

\* enemies.count of a level with the given movement
CountOf(movement) == IF movement.type = "stationary" THEN 3 ELSE 1

MoveInit ==
    /\ GameInit
    /\ config.count = 1 /\ config.health = 1 /\ config.victory.type = "destroy-all"
    /\ config.laserLifetime = 180 /\ storedBest = Null
    /\ probe = NoProbe /\ ship = NoShip /\ fx = NoFx
    /\ \E movement \in Movements, beam \in {NoBeam, EmbriumBeam},
          bodies \in {<< >>, <<Planet>>}, dt \in MoveSteps :
          fleet = [stage |-> "spawn", movement |-> movement, beam |-> beam,
                   bodies |-> bodies, dt |-> dt, drones |-> << >>, nowMs |-> 0,
                   ticks |-> 0, turns |-> 0, lastDt |-> 0]

\* loadEnemies pushes enemies.count drones
LoadMovers ==
    /\ fleet.stage = "spawn"
    /\ \E ds \in [1..CountOf(fleet.movement) ->
                     UNION {NewMovers(fleet.movement, i) :
                               i \in 0..(CountOf(fleet.movement) - 1)}] :
          /\ \A i \in 1..CountOf(fleet.movement) : ds[i].index = i - 1
          /\ fleet' = [fleet EXCEPT !.stage = "move", !.drones = ds]
    /\ UNCHANGED <<game, probe, ship, fx>>

\* updateEnemies(dt, environmentState) at a later reading of performance.now()
MoveFrame(dt) ==
    /\ fleet.stage = "move"
    /\ \E later \in {fleet.dt, 2 * fleet.dt},
          target \in getRandomPosition(
                        IF fleet.movement.type = "orbital" THEN PatrolMovement
                        ELSE fleet.movement, 0),
          turn \in IF fleet.movement.type = "random-area" /\ fleet.turns < MaxTurns
                   THEN BOOLEAN ELSE {FALSE},
          velocity \in RandomVelocities(fleet.drones[1].speed) :
          LET nowMs == IF fleet.movement.type = "orbital"
                       THEN fleet.nowMs + later ELSE fleet.nowMs
          IN /\ nowMs <= MaxMoveTime
             /\ fleet' = [fleet EXCEPT
                    !.nowMs = nowMs,
                    !.ticks = IF @ < 2 THEN @ + 1 ELSE @,
                    !.turns = IF turn THEN @ + 1 ELSE @,
                    !.lastDt = dt,
                    !.drones = [i \in 1..Len(fleet.drones) |->
                                   MoveDrone(fleet.drones[i], fleet, dt, nowMs,
                                             target, turn, velocity)]]
    /\ UNCHANGED <<game, probe, ship, fx>>

\* a frame of the behaviour's frame length
TickMove == MoveFrame(fleet.dt)

MoveNext == LoadMovers \/ TickMove

\* the render loop keeps calling updateEnemies
MoveSpec == MoveInit /\ [][MoveNext]_vars /\ WF_vars(TickMove)

(* ------------------ useEffects, given a glow layer -------------------- *)
\* particles spawned in a behaviour
MaxEffects == 2

\* frame lengths of the effects' ticks, and those that let time pass
EffectSteps == {0, 300}
PositiveSteps == EffectSteps \ {0}

\* velocities a spark may be given, in dm/s
SparkVelocities == {<<8, 0, -4>>}

\* where the particles are spawned
SpawnPosition == <<0, 0, 0>>

\* spawnExplosion(position) of a hook with scene and glow
pushExplosion(f) ==
    IF ~f.glow THEN f
    ELSE [f EXCEPT !.explosions = Append(@, [id |-> f.spawned + 1,
                                            ttl |-> EXPLOSION_DURATION]),
                   !.spawned = @ + 1]

\* one turn of the loop of spawnSparks(position, count)
pushSpark(f, velocity) ==
    IF ~f.glow THEN f
    ELSE [f EXCEPT !.sparks = Append(@, [id |-> f.spawned + 1, ttl |-> SPARK_DURATION,
                                        position |-> SpawnPosition,
                                        velocity |-> velocity]),
                   !.spawned = @ + 1]

\* (a particle is removed when its ttl is below 0)
ExpiredLate(ttl) == ttl < 0

\* the removal test of both loops of updateEffects
Expired(ttl) == ttl <= 0

\* the body of the explosion loop of updateEffects before the removal test
StepExplosion(x, dt) == [x EXCEPT !.ttl = @ - dt]

\* the body of the spark loop of updateEffects before the removal test
StepSpark(x, dt) ==
    [x EXCEPT !.position = VAdd(@, VTrunc(x.velocity, dt, 1000)),
              !.velocity = VTrunc(@, 92, 100),
              !.ttl = @ - dt]

\* a loop of updateEffects over a list already stepped: the particles whose
\* ttl is <= 0 are spliced out, the others keep their order
Splice(stepped) == SelectSeq(stepped, LAMBDA x : ~Expired(x.ttl))

\* the ttl with which particle id was spliced out of a stepped list, or none
SplicedTtl(stepped, id) ==
    LET at == {i \in 1..Len(stepped) : stepped[i].id = id /\ Expired(stepped[i].ttl)}
    IN IF at = {} THEN Null ELSE stepped[CHOOSE i \in at : TRUE].ttl

\* updateEffects(dt) on the particles themselves
updateParticles(f, dt) ==
    LET blasts == [e \in 1..Len(f.explosions) |-> StepExplosion(f.explosions[e], dt)]
        flecks == [p \in 1..Len(f.sparks) |-> StepSpark(f.sparks[p], dt)]
        out == [id \in 1..MaxEffects |->
                   IF SplicedTtl(blasts, id) # Null THEN SplicedTtl(blasts, id)
                   ELSE SplicedTtl(flecks, id)]
    IN [f EXCEPT !.explosions = Splice(blasts),
                 !.sparks = Splice(flecks),
                 !.removed = [id \in 1..MaxEffects |->
                                 IF out[id] # Null THEN f.removed[id] + 1
                                 ELSE f.removed[id]],
                 !.gone = [id \in 1..MaxEffects |->
                              IF out[id] # Null THEN out[id] ELSE f.gone[id]],
                 !.lastDt = dt]

EffectInit ==
    /\ GameInit
    /\ config.count = 1 /\ config.health = 1 /\ config.victory.type = "destroy-all"
    /\ config.laserLifetime = 180 /\ storedBest = Null
    /\ probe = NoProbe /\ ship = NoShip /\ fleet = NoFleet
    /\ \E glow \in BOOLEAN :
          fx = [stage |-> "effects", glow |-> glow, explosions |-> << >>,
                sparks |-> << >>, spawned |-> 0, lastDt |-> 0,
                removed |-> [i \in 1..MaxEffects |-> 0],
                gone |-> [i \in 1..MaxEffects |-> Null]]

SpawnExplosion ==
    /\ fx.stage = "effects" /\ fx.spawned < MaxEffects
    /\ fx' = pushExplosion(fx)
    /\ UNCHANGED <<game, probe, ship, fleet>>

\* spawnSparks(position, 1)
SpawnSpark ==
    /\ fx.stage = "effects" /\ fx.spawned < MaxEffects
    /\ \E velocity \in SparkVelocities : fx' = pushSpark(fx, velocity)
    /\ UNCHANGED <<game, probe, ship, fleet>>

\* a frame that lets time pass
TickEffects ==
    /\ fx.stage = "effects"
    /\ \E dt \in PositiveSteps : fx' = updateParticles(fx, dt)
    /\ UNCHANGED <<game, probe, ship, fleet>>

\* a frame with dt = 0
PausedTickEffects ==
    /\ fx.stage = "effects"
    /\ fx' = updateParticles(fx, 0)
    /\ UNCHANGED <<game, probe, ship, fleet>>

EffectNext == SpawnExplosion \/ SpawnSpark \/ TickEffects \/ PausedTickEffects

\* the render loop keeps calling updateEffects with dt > 0
EffectSpec == EffectInit /\ [][EffectNext]_vars /\ WF_vars(TickEffects)


(* ---------------------- frames with dt = 0 ---------------------------- *)
\* Each hook of the render loop takes the frame's dt and works on its own
\* objects: a behaviour follows one of them through frames of any length,
\* among them frames with dt = 0.

\* frames a laser is followed through
MaxShotFrames == 4

\* frame lengths of a laser's ticks
ShotSteps == {0} \cup Steps

ShotInit ==
    /\ GameInit
    /\ config.count = 1 /\ config.health = 1 /\ config.victory.type = "destroy-all"
    /\ config.laserLifetime = 180 /\ storedBest = Null
    /\ ship = NoShip /\ fleet = NoFleet /\ fx = NoFx
    /\ probe = [stage |-> "aim", lasers |-> << >>, lastDt |-> Null, frames |-> 0]

\* fireLaser: the laser pushed
FireShot ==
    /\ probe.stage = "aim"
    /\ probe' = [probe EXCEPT !.stage = "shot",
                              !.lasers = fireLaser(World, 0).lasers]
    /\ UNCHANGED <<game, ship, fleet, fx>>

\* "Move laser" and "Remove expired lasers" of updateWeapons, no drone near
TickShot ==
    /\ probe.stage = "shot"
    /\ probe.frames < MaxShotFrames
    /\ \E dt \in ShotSteps :
          probe' = [probe EXCEPT
                       !.lasers = SelectSeq([i \in 1..Len(probe.lasers) |->
                                                MoveLaser(probe.lasers[i], dt)],
                                            LAMBDA l : ~(l.ttl <= 0)),
                       !.lastDt = dt,
                       !.frames = @ + 1]
    /\ UNCHANGED <<game, ship, fleet, fx>>

\* a frame with dt = 0 for the drones
PausedTickMove == MoveFrame(0)

PauseInit == PlayerInit \/ ShotInit \/ EffectInit \/ BeamInit \/ MoveInit

PauseNext ==
    \/ UpdatePlayer
    \/ FireShot \/ TickShot
    \/ SpawnExplosion \/ SpawnSpark \/ TickEffects \/ PausedTickEffects
    \/ LoadBeams \/ TickBeams
    \/ LoadMovers \/ TickMove \/ PausedTickMove

PauseSpec == PauseInit /\ [][PauseNext]_vars


(* ----------------------------- Space Snake ---------------------------- *)
\* The page keeps one GameState in React state; every handler is a
\* functional update setGame(prev => ...), applied to the latest state.
\* probe.game is that state, probe.ref what gameRef.current holds (the state
\* of the last render), probe.last the direction the last step since
\* the last reset applied (a step that ends in a collision included), and
\* probe.reversed whether a step applied the opposite of the direction of the
\* step before it.

\* the side of the grid, in cells
GRID_SIZE == 4

\* foods eaten in one game
MaxScore == 1

\* outcomes of Math.random() in placeFood, times 1000
FoodDraws == {0, 999}

\* pendingDirection: null
NoDirection == <<0, 0>>

\* the values of DIRECTIONS
DIRECTIONS == {<<0, -1>>, <<0, 1>>, <<-1, 0>>, <<1, 0>>}

\* createInitialState()
createInitialState ==
    LET center == GRID_SIZE \div 2
    IN [snake |-> <<<<center, center>>, <<center - 1, center>>, <<center - 2, center>>>>,
        direction |-> <<1, 0>>, pendingDirection |-> NoDirection,
        food |-> <<4, 4>>, score |-> 0, isRunning |-> FALSE, isGameOver |-> FALSE]

isOpposite(a, b) == a[1] + b[1] = 0 /\ a[2] + b[2] = 0

\* the cells of a snake
Occupied(snake) == {snake[i] : i \in 1..Len(snake)}

\* the cells in the order the loops of placeFood visit them
ScanOrder == [k \in 1..(GRID_SIZE * GRID_SIZE) |->
                 <<(k - 1) % GRID_SIZE, (k - 1) \div GRID_SIZE>>]

\* (a cell drawn among all the cells)
placeFoodAnywhere(snake, r) ==
    ScanOrder[((r * Len(ScanOrder)) \div 1000) + 1]

\* placeFood(snake), with Math.random() = r / 1000
placeFood(snake, r) ==
    LET free == SelectSeq(ScanOrder, LAMBDA c : c \notin Occupied(snake))
    IN IF free = << >> THEN <<0, 0>>
       ELSE free[((r * Len(free)) \div 1000) + 1]

\* the update of resetGame
snakeReset(r) ==
    [createInitialState EXCEPT !.food = placeFood(createInitialState.snake, r)]

\* (the toggle without the game-over test)
toggleRunAlways(prev) == [prev EXCEPT !.isRunning = ~prev.isRunning]

\* the update of toggleRun
toggleRun(prev) ==
    IF prev.isGameOver THEN prev
    ELSE [prev EXCEPT !.isRunning = ~prev.isRunning]

\* (the direction key without the isOpposite test)
handleKeyAnyDirection(prev, next) ==
    IF prev.isGameOver THEN prev
    ELSE [prev EXCEPT !.pendingDirection = next, !.isRunning = TRUE]

\* the update of handleKey for a code of DIRECTIONS
handleKey(prev, next) ==
    IF prev.isGameOver THEN prev
    ELSE IF isOpposite(prev.direction, next) THEN prev
    ELSE [prev EXCEPT !.pendingDirection = next, !.isRunning = TRUE]

\* the direction a step of prev applies
StepDirection(prev) ==
    IF prev.pendingDirection # NoDirection THEN prev.pendingDirection
    ELSE prev.direction

\* the head a step of prev moves to
NextHead(prev) ==
    <<(prev.snake[1][1] + StepDirection(prev)[1] + GRID_SIZE) % GRID_SIZE,
      (prev.snake[1][2] + StepDirection(prev)[2] + GRID_SIZE) % GRID_SIZE>>

\* the step moves: it is neither skipped nor a collision
StepMoves(prev) ==
    prev.isRunning /\ ~prev.isGameOver /\ NextHead(prev) \notin Occupied(prev.snake)

\* the update of draw, with Math.random() = r / 1000 should food be placed
drawStep(prev, r) ==
    IF ~prev.isRunning \/ prev.isGameOver THEN prev
    ELSE IF NextHead(prev) \in Occupied(prev.snake)
    THEN [prev EXCEPT !.isRunning = FALSE, !.isGameOver = TRUE]
    ELSE LET ateFood == NextHead(prev) = prev.food
             grown == <<NextHead(prev)>> \o prev.snake
             newSnake == IF ateFood THEN grown ELSE SubSeq(grown, 1, Len(grown) - 1)
         IN [snake |-> newSnake, direction |-> StepDirection(prev),
             pendingDirection |-> NoDirection,
             food |-> IF ateFood THEN placeFood(newSnake, r) ELSE prev.food,
             score |-> IF ateFood THEN prev.score + 1 ELSE prev.score,
             isRunning |-> prev.isRunning, isGameOver |-> FALSE]

\* what draw reads of gameRef.current
RefOf(g) == [isRunning |-> g.isRunning, isGameOver |-> g.isGameOver]

\* useState(() => ...) of SpaceSnakePage
SnakeInit ==
    /\ GameInit
    /\ config.count = 1 /\ config.health = 1 /\ config.victory.type = "destroy-all"
    /\ config.laserLifetime = 180 /\ storedBest = Null
    /\ ship = NoShip /\ fleet = NoFleet /\ fx = NoFx
    /\ \E r \in FoodDraws :
          probe = [stage |-> "snake", game |-> snakeReset(r),
                   ref |-> RefOf(snakeReset(r)), last |-> NoDirection,
                   reversed |-> FALSE]

\* the effect gameRef.current = game after a render
SnakeRender ==
    /\ probe.stage = "snake"
    /\ probe' = [probe EXCEPT !.ref = RefOf(probe.game)]
    /\ UNCHANGED <<game, ship, fleet, fx>>

\* Space, or the Pause/Launch button
SnakeToggle ==
    /\ probe.stage = "snake"
    /\ probe' = [probe EXCEPT !.game = toggleRun(probe.game)]
    /\ UNCHANGED <<game, ship, fleet, fx>>

\* KeyR, or the reset button
SnakeReset ==
    /\ probe.stage = "snake"
    /\ \E r \in FoodDraws :
          probe' = [probe EXCEPT !.game = snakeReset(r), !.last = NoDirection]
    /\ UNCHANGED <<game, ship, fleet, fx>>

\* an arrow key or W, A, S, D
SnakeKey ==
    /\ probe.stage = "snake"
    /\ \E next \in DIRECTIONS :
          probe' = [probe EXCEPT !.game = handleKey(probe.game, next)]
    /\ UNCHANGED <<game, ship, fleet, fx>>

\* draw(timestamp) more than STEP_MS after the last step
SnakeStep ==
    /\ probe.stage = "snake"
    /\ probe.ref.isRunning /\ ~probe.ref.isGameOver
    /\ StepMoves(probe.game) /\ NextHead(probe.game) = probe.game.food
          => probe.game.score < MaxScore
    /\ \E r \in FoodDraws :
          probe' = [probe EXCEPT
                       !.game = drawStep(probe.game, r),
                       !.last = IF probe.game.isRunning /\ ~probe.game.isGameOver
                                THEN StepDirection(probe.game) ELSE @,
                       !.reversed = \/ @
                                    \/ /\ probe.game.isRunning /\ ~probe.game.isGameOver
                                       /\ isOpposite(probe.last, StepDirection(probe.game))]
    /\ UNCHANGED <<game, ship, fleet, fx>>

SnakeNext == SnakeRender \/ SnakeToggle \/ SnakeReset \/ SnakeKey \/ SnakeStep

SnakeSpec == SnakeInit /\ [][SnakeNext]_vars

(* ------------------------------- claims ------------------------------- *)
Ids == 1..Len(hist.hits)
Live == {drones[i].id : i \in 1..Len(drones)}

\* C1: a drone's health after N weapon hits is its initial health minus N;
\* its "destroyed" event is emitted at most once, only once its health is
\* <= 0 (N >= initial health), and in the tick in which its health first
\* got there.
C1_HealthAndDestroyedOnce ==
    /\ \A i \in 1..Len(drones) :
          drones[i].health = config.health - hist.hits[drones[i].id]
    /\ \A id \in Ids :
          /\ hist.destroyedEvents[id] <= 1
          /\ hist.destroyedEvents[id] = 1 <=> hist.hits[id] >= config.health
    /\ hist.tickDestroyed = hist.tickDied

\* a drone with two or more hit points took its hits and was destroyed
C1_Witness ==
    \E id \in Ids : hist.destroyedEvents[id] = 1 /\ hist.hits[id] >= 2

\* C2: a drone leaves the registry through removeDrone at most once, exactly
\* when its "destroyed" event is emitted; no drone with health <= 0 is in
\* the registry, and the drones a tick iterates (the registry) are distinct
\* drones that were never removed.
C2_RemovedOnceWithEvent ==
    /\ \A id \in Ids : hist.removals[id] = hist.destroyedEvents[id]
    /\ \A i \in 1..Len(drones) :
          /\ drones[i].health > 0
          /\ hist.removals[drones[i].id] = 0
    /\ Cardinality(Live) = Len(drones)

\* a drone was destroyed and removed while others stay in the registry
C2_Witness ==
    /\ Len(drones) > 0
    /\ \E id \in Ids : hist.removals[id] = 1 /\ id \in hist.tickDestroyed


DestroyAll == config.victory.type = "destroy-all"
DestroyCount == config.victory.type = "destroy-count"
SurviveTime == config.victory.type = "survive-time"

\* C3 as stated: under destroy-all, victory is not declared while a drone
\* remains, and the tick that destroys the last drone declares victory with
\* finalTime the wall time elapsed since the start latch.
C3_VictoryOnLastKillTick ==
    DestroyAll =>
        /\ hist.won => Len(drones) = 0
        /\ hist.tickDestroyed # {} /\ Len(drones) = 0 =>
              hist.won /\ st.finalTime = now - timerStart

\* C3, amended: under destroy-all, victory is never declared while a drone
\* remains in the registry; a tick whose victory check is armed (the last
\* render saw enemiesLoaded and no victory, the initial count is latched, no
\* stop timestamp is set, the start timestamp was latched more than 100 ms
\* before) and finds the registry empty declares victory in that tick; and
\* finalTime is the wall time between the start latch and the victory tick.
C3_DestroyAllVictory ==
    DestroyAll =>
        /\ hist.won => /\ Len(drones) = 0
                       /\ timerStop = now
                       /\ st.finalTime = now - timerStart
        /\ hist.checked /\ hist.seenIds = {} => hist.won

\* the third of three drones is destroyed and victory is declared in that tick
C3_Witness ==
    /\ DestroyAll /\ config.count = 3
    /\ hist.tickDestroyed # {} /\ hist.won

\* C4: under destroy-all a declared victory means an empty registry and a
\* positive latched initial count, with drones loaded in this run; while the
\* drones have not been loaded (still loading, or the load failed) victory
\* is not declared.
C4_DestroyAllNeedsDrones ==
    DestroyAll =>
        /\ timerStop # Null => /\ Len(drones) = 0
                               /\ initialEnemyCount # Null /\ initialEnemyCount > 0
                               /\ hist.loadedThisRun > 0
        /\ loadState # "loaded" => timerStop = Null /\ ~st.isVictory

\* no drone was ever loaded and victory checks have run past the grace time
C4_Witness ==
    /\ DestroyAll /\ loadState = "failed" /\ drones = <<>>
    /\ timerStart # Null /\ now - timerStart > VictoryGraceMs

\* C5: between two resets victory is declared at most once: the stop
\* timestamp is written by that declaration only, and finalTime stays the
\* time between the start latch and the stop timestamp.
C5_VictoryLatched ==
    /\ hist.victories <= 1
    /\ timerStop # Null <=> hist.victories = 1
    /\ timerStop # Null => st.isVictory /\ st.finalTime = timerStop - timerStart
    /\ timerStop = Null => ~st.isVictory /\ st.finalTime = Null

\* a tick ran after the victory tick while the loop still reads isVictory = false
C5_Witness ==
    timerStop # Null /\ now > timerStop /\ ~cl.isVictory

TickOrder == <<"player", "fire", "weapons", "effects", "enemies", "victory">>

\* C6: the steps of a tick run in the order player, fire request,
\* projectiles and hit tests, effects, enemies, victory check; the registry
\* the victory check reads holds no drone destroyed in that tick and no
\* removed drone.
C6_TickOrder ==
    /\ hist.steps \in {<<>>, TickOrder}
    /\ hist.seenIds \cap hist.tickDestroyed = {}
    /\ \A id \in hist.seenIds : hist.removals[id] = 0 /\ hist.destroyedEvents[id] = 0

\* a tick destroyed a drone and its victory check was armed
C6_Witness ==
    hist.steps = TickOrder /\ hist.tickDestroyed # {} /\ hist.checked

\* C7 as stated: right after a reset there is no laser, explosion or spark,
\* the registry holds the configured number of drones at full health, and
\* the victory flag, destroyed counter, initial count and timer latches are
\* unset.
C7_ResetClearsAll ==
    hist.justReset =>
        /\ lasers = <<>> /\ explosions = <<>> /\ sparks = <<>>
        /\ Len(drones) = config.count
        /\ \A i \in 1..Len(drones) : drones[i].health = config.health
        /\ ~st.isVictory /\ st.finalTime = Null /\ st.destroyedEnemyCount = 0
        /\ initialEnemyCount = Null /\ timerStart = Null /\ timerStop = Null

\* C8 as stated: under destroy-count(n) victory is not declared with fewer
\* than n drones destroyed, the counter a victory check reads is the number
\* of "destroyed" events emitted so far, and an armed check on the tick of
\* the n-th destruction declares victory.
C8_DestroyCountVictory ==
    DestroyCount =>
        /\ hist.won => hist.destroyedThisRun >= config.victory.count
        /\ hist.steps # <<>> => hist.seenDestroyed = hist.destroyedThisRun
        /\ hist.checked /\ hist.destroyedThisRun >= config.victory.count => hist.won

C10_ReadOnceWriteLower ==
    /\ hist.storeReads <= 1
    /\ \A i \in 1..Len(hist.writes) :
          hist.writes[i].prev # Null /\ hist.writes[i].value < hist.writes[i].prev

\* C10, amended: the store is read at mount and once more at every win; it
\* is written only at a win, with the win's final time, when nothing is
\* stored or the final time is strictly lower than the stored best; so the
\* stored best never increases.
C10_BestTimeStore ==
    /\ hist.storeReads = 1 + hist.resets + hist.victories
    /\ Len(hist.writes) <= hist.resets + hist.victories
    /\ \A i \in 1..Len(hist.writes) :
          /\ hist.writes[i].prev = Null \/ hist.writes[i].value < hist.writes[i].prev
          /\ i > 1 => hist.writes[i].prev = hist.writes[i - 1].value
    /\ hist.writes # <<>> => storedBest = hist.writes[Len(hist.writes)].value
    /\ hist.writes = <<>> /\ timerStop # Null => storedBest # Null /\ storedBest <= st.finalTime

\* two wins, the second one faster: the store was written twice
C10_Witness ==
    Len(hist.writes) = 2

\* C11: the start timestamp is set only while the enemies are loaded (as
\* enemiesLoaded tells), a tick whose loop saw them loaded leaves it set,
\* it is written once per run (between two resets no later tick rewrites
\* it), and a stop timestamp exists only with a start timestamp not after it.
C11_StartLatchedOnce ==
    /\ hist.starts <= 1
    /\ timerStart # Null <=> hist.starts = 1
    /\ timerStart # Null => st.enemiesLoaded /\ loadState # "loading" /\ timerStart <= now
    /\ hist.sawLoaded => timerStart # Null
    /\ timerStop # Null => timerStart # Null /\ timerStop >= timerStart
    /\ st.isVictory => timerStart # Null

\* ticks have run after the latch, and a victory was declared after it
C11_Witness ==
    /\ timerStart # Null /\ timerStop # Null /\ timerStop > timerStart
    /\ now > timerStop /\ hist.resets = 1

\* C12: a tick spawns at most one projectile, and only when the time since
\* lastShotTimestamp exceeded fireRate; the spawn sets lastShotTimestamp to
\* the spawn time, and two consecutive spawns are more than fireRate ms apart.
C12_FireCadence ==
    /\ hist.tickShots <= 1
    /\ hist.shots # <<>> => lastShotTime = hist.shots[Len(hist.shots)]
    /\ hist.shots = <<>> => lastShotTime = 0
    /\ hist.tickShots = 1 => lastShotTime = now
    /\ Len(hist.shots) = 1 => hist.shots[1] > Weapons.fireRate
    /\ Len(hist.shots) = 2 => hist.shots[2] - hist.shots[1] > Weapons.fireRate

\* a request held over a tick that came too early, then honored: two spawns
\* 180 ms apart
C12_Witness ==
    /\ Len(hist.shots) = 2 /\ hist.shots[2] - hist.shots[1] = 180
    /\ hist.tickShots = 1 /\ fire

\* the lasers spawned so far, and the log entries of laser id
Spawned == {lasers[i].id : i \in 1..Len(lasers)}
             \cup {hist.laserEnds[k].id : k \in 1..Len(hist.laserEnds)}
EndsOf(id) == {k \in 1..Len(hist.laserEnds) : hist.laserEnds[k].id = id}
HitsOf(id) == {k \in 1..Len(hist.laserHits) : hist.laserHits[k].id = id}

\* C13: a projectile is removed once, by the expiry of its ttl or by its
\* first hit, and is in the list until then; while it flies its ttl is
\* positive, and every tick takes its dt off the ttl of a projectile that
\* stays; a projectile that expires in a tick is not hit-tested in that
\* tick; a projectile takes at most one health point, from one drone, and
\* that hit removes it.
C13_LaserRemovedOnce ==
    /\ [](/\ \A i, j \in 1..Len(lasers) : lasers[i].id = lasers[j].id => i = j
          /\ \A i \in 1..Len(lasers) :
                /\ EndsOf(lasers[i].id) = {} /\ HitsOf(lasers[i].id) = {}
                /\ lasers[i].ttl > 0 /\ lasers[i].ttl < Weapons.laserLifetime
          /\ \A id \in Spawned :
                /\ Cardinality(EndsOf(id)) <= 1
                /\ Cardinality(HitsOf(id)) <= 1
                /\ \A k \in EndsOf(id) :
                      IF hist.laserEnds[k].cause = "hit"
                      THEN HitsOf(id) # {}
                      ELSE HitsOf(id) = {} /\ id \notin hist.tickTested
          /\ \A k \in 1..Len(hist.laserHits) : EndsOf(hist.laserHits[k].id) # {})
    /\ [][/\ \A i \in 1..Len(lasers) : \A j \in 1..Len(lasers') :
                lasers[i].id = lasers'[j].id =>
                    lasers'[j].ttl = lasers[i].ttl - (now' - now)
          /\ \A i \in 1..Len(lasers) :
                (\A j \in 1..Len(lasers') : lasers'[j].id # lasers[i].id) =>
                    /\ now' > now
                    /\ \E k \in 1..Len(hist'.laserEnds) :
                          /\ hist'.laserEnds[k].id = lasers[i].id
                          /\ hist'.laserEnds[k].cause = "ttl" =>
                                lasers[i].ttl - (now' - now) <= 0]_vars

\* a projectile expired inside a drone's ellipsoid and took nothing from it
C13_Witness ==
    \E k \in 1..Len(hist.laserEnds) :
        /\ hist.laserEnds[k].cause = "ttl" /\ hist.laserEnds[k].inside
        /\ HitsOf(hist.laserEnds[k].id) = {}
        /\ Len(drones) = 1 /\ drones[1].health = config.health

\* the events emitted for the hit of laser id
EventsOf(id) == {k \in 1..Len(hist.events) : hist.events[k].laser = id}

\* C14: a projectile's hit emits one event, "destroyed" when the drone's
\* health after the decrement is <= 0 and "hit" otherwise; a projectile that
\* did not hit emits none; and the hit is on one drone only, whatever other
\* drones hold the projectile's position.
C14_OneEventPerHit ==
    /\ Len(hist.events) = Len(hist.laserHits)
    /\ \A k \in 1..Len(hist.laserHits) :
          /\ hist.events[k].laser = hist.laserHits[k].id
          /\ hist.events[k].drone = hist.laserHits[k].drone
          /\ hist.events[k].kind =
                IF hist.events[k].health <= 0 THEN "destroyed" ELSE "hit"
          /\ Cardinality(EventsOf(hist.laserHits[k].id)) = 1
          /\ Cardinality(HitsOf(hist.laserHits[k].id)) = 1
    /\ \A i \in 1..Len(drones) :
          Cardinality({k \in 1..Len(hist.events) :
                          hist.events[k].drone = drones[i].id}) = hist.hits[drones[i].id]

\* a drone took a "hit" from one projectile and was "destroyed" by another
C14_Witness ==
    \E k, m \in 1..Len(hist.events) :
        /\ hist.events[k].kind = "hit" /\ hist.events[m].kind = "destroyed"
        /\ hist.events[k].drone = hist.events[m].drone
        /\ hist.events[k].laser # hist.events[m].laser

Degenerate ==
    \A i, j \in 1..Len(probe.meshes) :
        /\ probe.meshes[i].lo = probe.meshes[i].hi
        /\ probe.meshes[i].lo = probe.meshes[j].lo

\* C16 as stated: degenerate bounds give radius 0, and no point is a hit on
\* a drone whose radius is <= 0.
C16_ZeroRadiusNoVolume ==
    /\ probe.stage \in {"built", "tested"} /\ Degenerate => probe.collision.radius = 0
    /\ probe.stage = "tested" /\ probe.collision.radius <= 0 => ~probe.inside

\* C16, amended: degenerate bounds (an empty mesh set, or meshes of no size)
\* give centre, zero radii and radius 0 rather than a failure; the hit test
\* takes a zero radius as 1, so a drone of radius 0 has the unit ball around
\* its centre as collision volume: a point is a hit on it exactly when it is
\* at most 1 from the centre.
C16_DegenerateBounds ==
    /\ probe.stage \in {"built", "tested"} /\ Degenerate =>
          /\ probe.collision.radius = 0 /\ probe.collision.radii = <<0, 0, 0>>
          /\ probe.collision.center =
                IF Len(probe.meshes) = 0 THEN <<0, 0, 0>> ELSE probe.meshes[1].lo
    /\ probe.stage \in {"built", "tested"} /\ probe.collision.radius <= 0 => Degenerate
    /\ probe.stage = "tested" /\ probe.collision.radius <= 0 =>
          (probe.inside <=> probe.kind \in {"center", "beyond", "near"})

\* a drone without meshes is hit by a point 1 away from its centre
C16_Witness ==
    /\ probe.stage = "tested" /\ probe.meshes = <<>> /\ probe.collision.radius = 0
    /\ probe.kind = "near" /\ probe.inside

\* the squared distance of the player from body i, and body i's exclusion
\* radius
Dist2(i) == Dot(VSub(ship.position, ship.bodies[i].center),
                VSub(ship.position, ship.bodies[i].center))
MinDistance(i) == ship.bodies[i].radius + ship.cfg.radius

\* C17: after every updatePlayer tick, whatever the controls, the frame
\* length and the collisions, the speed is at most maxSpeed (within the 1 dm/s
\* of the integer cut).
C17_SpeedClamp ==
    ship.stage = "flying" =>
        Dot(ship.linearVelocity, ship.linearVelocity)
            <= (ship.cfg.maxSpeed + 1) * (ship.cfg.maxSpeed + 1)

\* throttle held over two ticks: the second tick's thrust exceeded maxSpeed
\* and was cut back to it
C17_Witness ==
    /\ ship.stage = "flying" /\ ship.ticks = 2 /\ ship.control.throttle
    /\ ship.clamped /\ ship.hit = 0
    /\ Length(ship.linearVelocity) >= ship.cfg.maxSpeed - 1

\* C18 as stated: after a tick the player is inside no body's exclusion
\* radius (within 2 dm of the integer cut).
C18_OutsideEveryBody ==
    ship.stage = "flying" =>
        \A i \in 1..Len(ship.bodies) :
            Dist2(i) >= (MinDistance(i) - 2) * (MinDistance(i) - 2)

\* C19: when the tentative position is at unit distance (10 dm) from the
\* centre of the first body it collides with, the tick leaves the player at
\* bodyRadius + playerRadius from that centre, and the velocity is 0.2 times
\* the velocity the tick had reached (cut to integers), the factor applied once.
C19_PushOut ==
    ship.stage = "flying" /\ ship.hit # 0
    /\ Dot(VSub(ship.nextPosition, ship.bodies[ship.hit].center),
           VSub(ship.nextPosition, ship.bodies[ship.hit].center)) = 100 =>
        /\ Dist2(ship.hit) = MinDistance(ship.hit) * MinDistance(ship.hit)
        /\ ship.linearVelocity = VTrunc(ship.before, 2, 10)

\* the player flew to unit distance of the centre of a body and was pushed out
C19_Witness ==
    /\ ship.stage = "flying" /\ ship.hit = 1 /\ Len(ship.bodies) = 2
    /\ Dot(VSub(ship.nextPosition, ship.bodies[1].center),
           VSub(ship.nextPosition, ship.bodies[1].center)) = 100
    /\ Length(ship.before) = 500 /\ Length(ship.linearVelocity) = 100

\* C20 as stated: when the tentative position is a body's centre, the tick
\* leaves the player at bodyRadius + playerRadius from that centre.
C20_ZeroToShipPushedOut ==
    ship.stage = "flying" /\ ship.hit # 0
    /\ ship.nextPosition = ship.bodies[ship.hit].center =>
        Dist2(ship.hit) = MinDistance(ship.hit) * MinDistance(ship.hit)

\* the largest absolute component of a vector
MaxAbs(v) == MaxOf({IF v[a] >= 0 THEN v[a] ELSE -v[a] : a \in 1..3})

\* C21: with no control held and a fixed dt > 0, for damping factors in (0,1),
\* the angular and the linear speed never increase from one tick to the next,
\* and both are 0 for good after a number of ticks bounded by the speeds the
\* player started with (here: their largest component, in the model's units):
\* no more than that many ticks begin with the player turning or moving.
C21_DampingConverges ==
    /\ [][/\ Dot(ship'.angularVelocity, ship'.angularVelocity)
                <= Dot(ship.angularVelocity, ship.angularVelocity)
          /\ Dot(ship'.linearVelocity, ship'.linearVelocity)
                <= Dot(ship.linearVelocity, ship.linearVelocity)]_vars
    /\ [][Still(ship) => Still(ship')]_vars
    /\ [](ship.ticks <= MaxOf({MaxAbs(ship.spin0), MaxAbs(ship.velocity0)}))

\* a player that was turning and moving at full speed has come to rest
C21_Witness ==
    /\ ship.stage = "flying" /\ Still(ship) /\ ship.ticks > 2
    /\ ship.spin0 # <<0, 0, 0>> /\ Length(ship.velocity0) = ship.cfg.maxSpeed
    /\ ship.cfg.linearDamping = 995 /\ ship.cfg.angularDamping = 900

\* C22: every drone's beam is waiting or beaming (never idle), and after
\* loading and after every tick its beam and lump are visible exactly when the
\* state is beaming.
C22_BeamStateVisible ==
    fleet.stage = "beam" =>
        \A i \in 1..Len(fleet.drones) :
            /\ fleet.drones[i].beamState \in {"waiting", "beaming"}
            /\ fleet.drones[i].visible <=> fleet.drones[i].beamState = "beaming"

\* of two drones one has gone through beaming and waits again, hidden, while
\* the other beams
C22_Witness ==
    /\ fleet.stage = "beam" /\ Len(fleet.drones) = 2
    /\ fleet.drones[1].beamState = "waiting" /\ fleet.drones[1].shown = 1
    /\ ~fleet.drones[1].visible
    /\ fleet.drones[2].beamState = "beaming" /\ fleet.drones[2].visible

\* C23 as stated: for delayMin = 1, delayMax = 5, duration = 2.5 the simulated
\* time between two consecutive "beam visible" transitions of a drone is at
\* least 1 s and at most 7.5 s.
C23_GapWithin ==
    fleet.stage = "beam" =>
        \A i \in 1..Len(fleet.drones) :
            fleet.drones[i].gap # Null =>
                fleet.drones[i].gap >= 1000 /\ fleet.drones[i].gap <= 7500

\* C23: the time between two consecutive "beam visible" transitions is at
\* least delayMin + duration (3.5 s), and less than delayMax + duration (7.5 s)
\* plus the dt of the tick that ended the beaming and the dt of the tick that
\* made the beam visible again.
C23_BeamCycleBounds ==
    fleet.stage = "beam" =>
        \A i \in 1..Len(fleet.drones) :
            LET d == fleet.drones[i]
            IN d.gap # Null =>
                /\ d.gap >= fleet.beam.delayMin + fleet.beam.duration
                /\ d.gap < fleet.beam.delayMax + fleet.beam.duration
                              + d.hideDt + d.showDt

\* a cycle that took longer than 7.5 s
C23_Witness ==
    /\ fleet.stage = "beam"
    /\ \E i \in 1..Len(fleet.drones) :
          fleet.drones[i].gap # Null /\ fleet.drones[i].gap > 7500

\* the particles of both lists, and the particle with a given id
Particles(f) ==
    {f.explosions[i] : i \in 1..Len(f.explosions)}
        \cup {[id |-> f.sparks[i].id, ttl |-> f.sparks[i].ttl] : i \in 1..Len(f.sparks)}
LiveIds(f) == {x.id : x \in Particles(f)}
TtlOf(f, id) == (CHOOSE x \in Particles(f) : x.id = id).ttl

\* C24: a particle's ttl goes down by dt on every tick it is alive; it is
\* removed exactly once, on the first tick that leaves its ttl <= 0 (a live
\* particle always has ttl > 0); once removed it is never in a list again nor
\* touched; and under ticks with dt > 0 every particle is eventually removed.
C24_EffectTtl ==
    /\ [](\A x \in Particles(fx) : x.ttl > 0 /\ fx.removed[x.id] = 0)
    /\ [](\A id \in 1..MaxEffects :
             /\ fx.removed[id] <= 1
             /\ fx.removed[id] = 1 => fx.gone[id] # Null /\ fx.gone[id] <= 0)
    /\ [][\A id \in 1..MaxEffects :
             /\ id \in LiveIds(fx) /\ id \in LiveIds(fx') /\ fx' # fx
                  /\ fx'.spawned = fx.spawned =>
                    TtlOf(fx', id) = TtlOf(fx, id) - fx'.lastDt
             /\ id \in LiveIds(fx) /\ id \notin LiveIds(fx') =>
                    /\ fx'.removed[id] = 1
                    /\ fx'.gone[id] = TtlOf(fx, id) - fx'.lastDt
             /\ fx.removed[id] = 1 =>
                    id \notin LiveIds(fx') /\ fx'.gone[id] = fx.gone[id]]_vars
    /\ \A id \in 1..MaxEffects : [](id \in LiveIds(fx) => <>(id \notin LiveIds(fx)))

\* an explosion and a spark were spawned, ticked several times and removed,
\* the explosion when its ttl reached exactly 0
C24_Witness ==
    /\ fx.stage = "effects" /\ fx.spawned = 2 /\ fx.lastDt > 0
    /\ \E i, j \in 1..MaxEffects :
          /\ i # j /\ fx.removed[i] = 1 /\ fx.removed[j] = 1
          /\ fx.gone[i] = 0 /\ fx.gone[j] < 0


\* the sum of a sequence of numbers
RECURSIVE SumSeq(_)
SumSeq(q) == IF q = << >> THEN 0 ELSE Head(q) + SumSeq(Tail(q))

\* C25 as stated: every hit has added SPARK_COUNT_ON_HIT sparks, every
\* destroying hit SPARK_COUNT_ON_DESTROY more and one explosion, and nothing
\* else has created a particle.
C25_EffectsOnHits ==
    /\ hist.sparksSpawned = SPARK_COUNT_ON_HIT * SumSeq(hist.hits)
                              + SPARK_COUNT_ON_DESTROY * SumSeq(hist.destroyedEvents)
    /\ hist.explosionsSpawned = SumSeq(hist.destroyedEvents)

\* C26 as stated: an orbital drone's orbit radius is altitude + the radius of
\* the first collision body (0 if there is none), its angular rate is
\* min(speed, maxSpeed / radius), and omega * radius is at most maxSpeed.
C26_OrbitRadiusAndRate ==
    fleet.stage = "move" /\ fleet.movement.type = "orbital" /\ fleet.ticks > 0 =>
        \A i \in 1..Len(fleet.drones) :
            LET d == fleet.drones[i]
                surfaceRadius == IF Len(fleet.bodies) > 0 THEN fleet.bodies[1].radius
                                 ELSE 0
            IN /\ d.position.radius = d.altitude + surfaceRadius
               /\ d.omega = Min2(d.speed, EnemyMaxSpeed \div d.position.radius)
               /\ d.omega * d.position.radius <= EnemyMaxSpeed

\* C28 as stated: stationary drone i (from 0) is at positions[i mod length]
\* from its spawn on, and no tick moves it.
C28_StationaryPlaced ==
    fleet.stage = "move" /\ fleet.movement.type = "stationary" =>
        \A i \in 1..Len(fleet.drones) :
            /\ fleet.drones[i].position
                  = fleet.movement.positions[((i - 1) % Len(fleet.movement.positions)) + 1]
            /\ ~fleet.drones[i].moved

\* C29 as stated: a patrol drone arrives at its target again and again: it
\* never stays for ever at 2 units or more from one and the same target.
C29_PatrolArrives ==
    [](fleet.stage = "move" /\ fleet.movement.type = "patrol"
          => <>(fleet.stage = "move" /\ fleet.drones # << >> /\ fleet.drones[1].arrived))

\* updatePlayer called with dt = 0
PausedUpdatePlayer ==
    /\ ship.stage # "none"
    /\ ship'.stage = "flying"
    /\ ship'.ticks = ship.ticks + 1
    /\ ship'.lastDt = 0

\* updateEffects called with dt = 0
PausedEffects ==
    fx.stage = "effects" /\ fx'.spawned = fx.spawned /\ fx'.lastDt = 0 /\ fx' # fx

\* updateEnemies called with dt = 0 on moving drones
PausedMove ==
    fleet.stage = "move" /\ fleet'.stage = "move" /\ fleet'.lastDt = 0

\* updateEnemies called with dt = 0 on drones with beams
PausedTickBeams ==
    fleet.stage = "beam" /\ fleet'.stage = "beam" /\ fleet'.elapsed = fleet.elapsed

\* the lasers' update called with dt = 0
PausedTickShot ==
    probe.stage = "shot" /\ probe'.stage = "shot" /\ probe'.lastDt = 0
        /\ probe'.frames = probe.frames + 1

\* the position an orbital drone loaded with the angle angle0 has at the
\* timestamp nowMs
OrbitAt(d, f, nowMs) ==
    LET radius == OrbitRadius(d, f.beam, f.bodies)
    IN OrbitPoint(CenterPoint, radius, d.tilt,
                  d.angle0 + nowMs * (IF radius = 0 THEN d.speed
                                     ELSE Min2(d.speed, EnemyMaxSpeed \div radius)))

C30_NoVictoryFromStaleState ==
    hist.resets > 0 /\ hist.won =>
        /\ hist.loadedThisRun > 0
        /\ cl.enemiesLoaded
        /\ initialEnemyCount # Null /\ initialEnemyCount > 0
        /\ initialEnemyCount <= hist.loadedThisRun
        /\ hist.starts = 1 /\ hist.sawLoaded
        /\ timerStart # Null /\ timerStop = now
        /\ timerStop - timerStart > VictoryGraceMs
        /\ st.finalTime = timerStop - timerStart
        /\ config.victory.type = "destroy-count"
               => hist.destroyedThisRun >= config.victory.count

\* a victory declared in the run after a reset
C30_Witness == hist.resets > 0 /\ hist.won /\ hist.victories = 1

\* C31: in every tick the array the loop iterates (the one handed to Game by
\* the last render) is the array the registry holds, also after resetEnemies
\* has replaced it; so the index of a destroying hit removes, in the
\* registry, the very drone that was hit: a drone destroyed in a tick has
\* been removed once and is no longer in the registry, and no other drone
\* has been removed.
C31_SameArraySameDrone ==
    /\ cl.dronesRef = st.dronesRef
    /\ st.dronesRef = hist.resets
    /\ \A id \in hist.tickDestroyed : hist.removals[id] = 1 /\ id \notin Live
    /\ \A id \in Ids : hist.destroyedEvents[id] = 0 => hist.removals[id] = 0

\* a drone destroyed and removed in a tick of the run after a reset
C31_Witness ==
    /\ hist.resets > 0 /\ st.dronesRef > 0
    /\ \E id \in hist.tickDestroyed : hist.removals[id] = 1

\* C32: a latched fire request is kept until it is honored: a step clears the
\* latch only by spawning a projectile; a tick that finds the latch set and
\* the cooldown over (now - lastShotTimestamp > fireRate) spawns a projectile
\* and clears the latch, whether the key is still down or not; a tick that
\* finds the latch set within the cooldown spawns nothing and leaves it set.
C32_FireLatchKept ==
    [][/\ fireRequested /\ ~fireRequested' =>
             hist'.tickShots = 1 /\ lastShotTime' = now' /\ now' # now
       /\ now' # now /\ fireRequested /\ now' - lastShotTime > Weapons.fireRate =>
             /\ hist'.tickShots = 1 /\ lastShotTime' = now' /\ ~fireRequested'
             /\ hist'.shots[Len(hist'.shots)] = now'
       /\ now' # now /\ fireRequested /\ now' - lastShotTime <= Weapons.fireRate =>
             hist'.tickShots = 0 /\ fireRequested' /\ lastShotTime' = lastShotTime]_vars

\* the key was pressed and released within the cooldown of a shot, a tick
\* came too early, and the next tick spawned the projectile
C32_Witness ==
    /\ Len(hist.shots) = 2 /\ hist.shots[2] - hist.shots[1] = 180
    /\ hist.tickShots = 1 /\ ~fire /\ ~fireRequested /\ lastShotTime = now

\* C33 as stated: once the initial drone count is latched, the drones in the
\* registry plus the "destroyed" events of the run add up to it at the end
\* of every tick, and the destroyed counter is the number of those events.
C33_DroneConservation ==
    /\ initialEnemyCount # Null =>
           Len(drones) + hist.destroyedThisRun = initialEnemyCount
    /\ st.destroyedEnemyCount = hist.destroyedThisRun

\* a tick of updateEnemies on drones with beams
BeamTicked == fleet.stage = "beam" /\ fleet'.stage = "beam"

\* the beam block of updateEnemies runs: the tractor beam is enabled and the
\* first collision body has a radius > 0
BeamRuns == fleet.beam.enabled /\ SurfaceRadius(fleet.beam, fleet.bodies) > 0

\* the transitions of drone i in a tick: entering beaming resets the progress,
\* entering waiting resets it and draws a timer in [delayMin, delayMax]
BeamEntries(i) ==
    /\ fleet.drones[i].beamState = "waiting" /\ fleet'.drones[i].beamState = "beaming"
           => fleet'.drones[i].lumpProgress = 0
    /\ fleet.drones[i].beamState = "beaming" /\ fleet'.drones[i].beamState = "waiting"
           => /\ fleet'.drones[i].lumpProgress = 0
              /\ fleet'.drones[i].beamTimer >= fleet.beam.delayMin
              /\ fleet'.drones[i].beamTimer <= fleet.beam.delayMax

\* C34 as stated: at the end of every tick (delayMin > 0) a beaming drone has
\* 0 <= lumpProgress < 1, a waiting drone lumpProgress = 0 and beamTimer > 0.
C34_TimerPositive ==
    [][BeamTicked /\ fleet.beam.delayMin > 0 =>
          \A i \in 1..Len(fleet.drones) :
              /\ fleet'.drones[i].beamState = "beaming" =>
                     /\ fleet'.drones[i].lumpProgress >= 0
                     /\ fleet'.drones[i].lumpProgress < fleet.beam.duration
              /\ fleet'.drones[i].beamState = "waiting" =>
                     /\ fleet'.drones[i].lumpProgress = 0
                     /\ fleet'.drones[i].beamTimer > 0
              /\ BeamEntries(i)]_vars

\* C34: at the end of every tick (delayMin > 0) a beaming drone has
\* 0 <= lumpProgress < 1 and a waiting drone lumpProgress = 0 and
\* beamTimer >= 0, and beamTimer > 0 if the beam block runs (beam enabled,
\* first collision body of radius > 0); entering beaming resets the progress
\* to 0, entering waiting draws a timer in [delayMin, delayMax].
C34_BeamRanges ==
    [][BeamTicked /\ fleet.beam.delayMin > 0 =>
          \A i \in 1..Len(fleet.drones) :
              /\ fleet'.drones[i].beamState \in {"waiting", "beaming"}
              /\ fleet'.drones[i].beamState = "beaming" =>
                     /\ fleet'.drones[i].lumpProgress >= 0
                     /\ fleet'.drones[i].lumpProgress < fleet.beam.duration
              /\ fleet'.drones[i].beamState = "waiting" =>
                     /\ fleet'.drones[i].lumpProgress = 0
                     /\ fleet'.drones[i].beamTimer >= 0
                     /\ BeamRuns => fleet'.drones[i].beamTimer > 0
              /\ BeamEntries(i)]_vars

\* a drone back in waiting after a beam, with the timer drawn for the next
C34_Witness ==
    /\ fleet.stage = "beam" /\ fleet.beam.delayMin > 0
    /\ \E i \in 1..Len(fleet.drones) :
          /\ fleet.drones[i].shown >= 1 /\ fleet.drones[i].beamState = "waiting"
          /\ fleet.drones[i].beamTimer >= fleet.beam.delayMin
          /\ fleet.drones[i].lumpProgress = 0

\* C35: with the tractor beam enabled and a first collision body of radius
\* > 0, under ticks with dt > 0 every waiting drone eventually beams and
\* every beaming drone eventually waits again; with the beam disabled or no
\* such body no tick changes a drone's beam state, timer or progress.
C35_BeamLiveness ==
    /\ \A i \in 1..MaxOf(FleetSizes) :
          /\ [](/\ fleet.stage = "cycle" /\ BeamRuns /\ i <= Len(fleet.drones)
                 /\ fleet.drones[i].beamState = "waiting"
                 => <>(/\ i <= Len(fleet.drones)
                       /\ fleet.drones[i].beamState = "beaming"))
          /\ [](/\ fleet.stage = "cycle" /\ BeamRuns /\ i <= Len(fleet.drones)
                 /\ fleet.drones[i].beamState = "beaming"
                 => <>(/\ i <= Len(fleet.drones)
                       /\ fleet.drones[i].beamState = "waiting"))
    /\ [][fleet.stage = "cycle" /\ ~BeamRuns => fleet'.drones = fleet.drones]_vars

\* a drone that beamed, waited again and beams for the second time
C35_Witness ==
    /\ fleet.stage = "cycle" /\ BeamRuns
    /\ \E i \in fleet.returned :
          fleet.drones[i].beamState = "beaming" /\ fleet.drones[i].lumpProgress > 0

\* C36: a random-area drone that starts inside its area sphere and moves by
\* less than 10% of the area radius a tick (speed * dt < radius / 10) is at
\* a distance <= the area radius from the area center after every tick.
C36_StaysInArea ==
    fleet.stage = "move" /\ fleet.movement.type = "random-area"
    => \A i \in 1..Len(fleet.drones) :
          LET d == fleet.drones[i]
              toCenter == VSub(fleet.movement.area.center, d.position)
          IN d.speed * fleet.dt * 10 < fleet.movement.area.radius * 1000
             => Dot(toCenter, toCenter)
                   <= fleet.movement.area.radius * fleet.movement.area.radius

\* C37: Space Snake: after every step and every reset the food is on no
\* snake segment while a free cell exists, and the segments are pairwise
\* distinct cells of the grid.
C37_FoodOffSnake ==
    probe.stage = "snake"
    => LET g == probe.game
       IN /\ Len(g.snake) < GRID_SIZE * GRID_SIZE => g.food \notin Occupied(g.snake)
          /\ \A i, j \in 1..Len(g.snake) : i # j => g.snake[i] # g.snake[j]
          /\ \A i \in 1..Len(g.snake) :
                g.snake[i][1] \in 0..(GRID_SIZE - 1) /\ g.snake[i][2] \in 0..(GRID_SIZE - 1)

\* a snake that ate, grew and went over the edge of the grid
C37_Witness ==
    /\ probe.stage = "snake"
    /\ probe.game.score = 1 /\ Len(probe.game.snake) = 4
    /\ probe.game.snake[1][1] = 0 /\ probe.game.snake[2][1] = GRID_SIZE - 1

\* C38: Space Snake: the direction a step applies is never the opposite of
\* the direction the step before it applied, whatever keys were pressed
\* between the two.
C38_NoReversal ==
    probe.stage = "snake" => ~probe.reversed

\* the snake, which starts to the right, went left in its last step (at
\* least two steps with a turn between them), and a direction key is pending
C38_Witness ==
    /\ probe.stage = "snake" /\ probe.last = <<-1, 0>>
    /\ probe.game.pendingDirection \in DIRECTIONS \ {probe.game.direction}

\* C39: Space Snake: isGameOver and isRunning are never both true, and once
\* isGameOver is true no step, direction key or toggle changes the state:
\* the only change is the one a reset makes.
C39_GameOverAbsorbing ==
    /\ [](probe.stage = "snake" => ~(probe.game.isGameOver /\ probe.game.isRunning))
    /\ [][probe.stage = "snake" /\ probe.game.isGameOver /\ probe'.game # probe.game
             => /\ probe'.game \in {snakeReset(r) : r \in FoodDraws}
                /\ probe'.last = NoDirection]_vars

\* the game is over while gameRef.current still says it runs
C39_Witness ==
    /\ probe.stage = "snake"
    /\ probe.game.isGameOver /\ ~probe.game.isRunning
    /\ probe.ref.isRunning /\ ~probe.ref.isGameOver

====
